---- MODULE Spec2Model ----
(***************************************************************************)
(* serverless-plugin-pubsub: the resource-graph construction of            *)
(* src/src/index.js.  The declared configuration (functions, custom.pubSub,*)
(* provider) is the input; the plugin collects Topic / Queue / Func /      *)
(* Subscription entities from it and derives CloudFormation resources, sns *)
(* and sqs events and IAM statements in the after:package:initialize hook. *)
(*                                                                         *)
(* JavaScript values are tagged records, so that typeof, truthiness and    *)
(* === are computed as the code computes them.  A string is a sequence of  *)
(* tokens ("-" and ":" are tokens of their own); the tokens are chosen so  *)
(* that two token sequences are equal exactly when the strings they spell  *)
(* are, and concatenation is \o.                                           *)
(***************************************************************************)
EXTENDS Integers, Sequences, FiniteSets, TLC

\* ------------------------------------------------------------ JS values
Undefined == [type |-> "undefined"]
Null == [type |-> "null"]
Bool(b) == [type |-> "boolean", bool |-> b]
Num(n) == [type |-> "number", num |-> n]
Str(s) == [type |-> "string", value |-> s]
Obj(f) == [type |-> "object", fields |-> f]
Arr(s) == [type |-> "array", items |-> s]
Empty == [k \in {} |-> Undefined]

\* ToBoolean
Truthy(v) ==
  CASE v.type = "boolean" -> v.bool
    [] v.type = "number" -> v.num # 0
    [] v.type = "string" -> v.value # <<>>
    [] v.type = "object" -> TRUE
    [] v.type = "array" -> TRUE
    [] OTHER -> FALSE

\* v.k: a property the value does not have reads as undefined
Get(v, k) ==
  IF v.type = "object" /\ k \in DOMAIN v.fields THEN v.fields[k] ELSE Undefined

\* a || b and a && b
Or(a, b) == IF Truthy(a) THEN a ELSE b
And(a, b) == IF Truthy(a) THEN b ELSE a

\* the own properties Object.assign copies from a source (none from null)
Fields(v) == IF v.type = "object" THEN v.fields ELSE Empty

\* Object.assign({}, a, b, ...) on two property maps: per key, the later wins
Assign(a, b) ==
  [k \in DOMAIN a \cup DOMAIN b |-> IF k \in DOMAIN b THEN b[k] ELSE a[k]]

\* an assignment that always adds an entry, whether or not the key is there
SetKeyAppending(entries, key, value) == Append(entries, [key |-> key, value |-> value])

\* obj[key] = value on an insertion-ordered object kept as a list of entries
SetKey(entries, key, value) ==
  IF \E i \in 1..Len(entries) : entries[i].key = key
    THEN [i \in 1..Len(entries) |->
            IF entries[i].key = key THEN [key |-> key, value |-> value]
            ELSE entries[i]]
    ELSE Append(entries, [key |-> key, value |-> value])

\* obj[key] on such a list
Lookup(entries, key) ==
  IF \E i \in 1..Len(entries) : entries[i].key = key
    THEN entries[CHOOSE i \in 1..Len(entries) : entries[i].key = key].value
    ELSE Undefined

\* ------------------------------------------------------------ event parsing
\* pullTopicNameFromEvent
pullTopicNameFromEvent(pubSub) ==
  IF pubSub.type = "string" THEN pubSub
  ELSE IF Truthy(pubSub) /\ Get(pubSub, "topic").type = "string"
    THEN Get(pubSub, "topic")
  ELSE IF Truthy(pubSub) /\ Truthy(Get(pubSub, "topic"))
    THEN Get(Get(pubSub, "topic"), "name")
  ELSE Undefined

\* a default queue name that leaves the function's name out
SharedDefaultQueueName(func) == Str(<<"default", "-", "queue">>)

\* `${func.name}-queue`
DefaultQueueName(func) == Str(func.name.value \o <<"-", "queue">>)

\* pullQueueNameFromEvent
pullQueueNameFromEvent(pubSub, func) ==
  IF ~Truthy(pubSub) \/ ~Truthy(Get(pubSub, "queue")) THEN Null
  ELSE IF Get(pubSub, "queue") = Bool(TRUE) THEN DefaultQueueName(func)
  ELSE IF Get(pubSub, "queue").type = "string" THEN Get(pubSub, "queue")
  ELSE Get(Get(pubSub, "queue"), "name")

\* pullQueueSubscriptionDetailsFromEvent
pullQueueSubscriptionDetailsFromEvent(pubSub) ==
  Or(And(And(pubSub, Get(pubSub, "queue")),
         Get(Get(pubSub, "queue"), "subscription")), Null)

\* pullTopicSubscriptionDetailsFromEvent
pullTopicSubscriptionDetailsFromEvent(pubSub) ==
  Or(And(And(pubSub, Get(pubSub, "topic")),
         Get(Get(pubSub, "topic"), "subscription")), Null)

\* topicExternalArn
topicExternalArn(pubSub) ==
  Or(And(And(pubSub, Get(pubSub, "topic")),
         Get(Get(pubSub, "topic"), "arn")), Null)

\* ------------------------------------------------------------ naming
\* the provider's naming helpers, as the repository's tests supply them
normalizeNameToAlphaNumericOnly(name) == SelectSeq(name, LAMBDA c : c # "-")
getTopicLogicalId(topicName) ==
  <<"SNSTopic">> \o normalizeNameToAlphaNumericOnly(topicName)
getLambdaLogicalId(funcName) == funcName \o <<"LogicalID">>
getLambdaSnsSubscriptionLogicalId(funcName, topicName) ==
  normalizeNameToAlphaNumericOnly(topicName) \o <<"To">> \o funcName
getQueueLogicalId(funcName, queueName) ==
  normalizeNameToAlphaNumericOnly(queueName) \o <<"To">> \o funcName
\* the two helpers the constructor adds to the provider's naming
getActualQueueLogicalId(queueName) ==
  <<"SQSQueue">> \o normalizeNameToAlphaNumericOnly(queueName)
getQueueSubscriptionLogicalId(topicName, queueName) ==
  getActualQueueLogicalId(queueName) \o <<"To">>
    \o getTopicLogicalId(topicName) \o <<"Subscription">>

\* service.service and the provider's stage
ServiceName == <<"svc">>
Stage == <<"dev">>
\* stackPrefix: `${serviceName}-${stage}-`
stackPrefix == ServiceName \o <<"-">> \o Stage \o <<"-">>
\* namespaceResource
namespaceResource(resourceName) == stackPrefix \o resourceName

\* ------------------------------------------------------------ declared input
\* bounds of the model
MaxEvents == 2
MaxPasses == 2

F1 == <<"f1">>
F2 == <<"f2">>
F3 == <<"f3">>
T1 == <<"t1">>
T2 == <<"t2">>
T3 == <<"t3">>
Q1 == <<"q1">>
\* Object.keys(service.functions)
FuncOrder == <<F1, F2, F3>>

\* an arn of a topic that another stack owns
ExternalArn(topicName) ==
  Str(<<"arn", ":", "aws", ":", "sns", ":", "us", "-", "east", "-", "1", ":",
        "20202020", ":">> \o topicName)

DeliveryPolicy == Obj([DeliveryPolicy |-> Obj([maxReceivesPerSecond |-> Num(3)])])
BatchSize1 == Obj([BatchSize |-> Num(1)])

\* the pubSub values the first family of configurations draws events from
PubSubForms ==
  { Str(T1),
    Obj([topic |-> Str(T1), queue |-> Bool(TRUE)]),
    Obj([topic |-> Obj([name |-> Str(T1), arn |-> ExternalArn(T1)])]),
    Obj([topic |-> Obj([name |-> Str(T1), arn |-> ExternalArn(T1)]),
         queue |-> Obj([name |-> Str(Q1), subscription |-> BatchSize1])]),
    Obj([topic |-> Obj([name |-> Str(T2), subscription |-> DeliveryPolicy]),
         queue |-> Obj([subscription |-> BatchSize1])]),
    Obj([topic |-> Str(T2), queue |-> Str(F1 \o <<"-", "queue">>)]),
    Obj([queue |-> Bool(TRUE)]) }

PubSubEvent(pubSub) == Obj([pubSub |-> pubSub])
HttpEvent == Obj([http |-> Str(<<"get">>)])

\* an event declared for one of the functions F1, F2
Slots == [func : {F1, F2},
          event : {PubSubEvent(d) : d \in PubSubForms} \cup {HttpEvent}]
\* at most MaxEvents declared events in all, in declaration order
Pools == UNION {[1..n -> Slots] : n \in 0..MaxEvents}

EventsOf(pool, f) ==
  LET sel == SelectSeq(pool, LAMBDA s : s.func = f)
  IN [i \in 1..Len(sel) |-> sel[i].event]

FunctionTimeout(f) ==
  CASE f = F1 -> Num(10) [] f = F2 -> Num(30) [] OTHER -> Undefined

Entry(k, v) == [key |-> k, value |-> v]

\* a configuration of the first family: the events of a pool, a fixed custom
\* block
FormConfig(pool) ==
  [functions |-> [f \in {F1, F2, F3} |->
                    [timeout |-> FunctionTimeout(f), events |-> EventsOf(pool, f)]],
   provider |-> [timeout |-> Undefined],
   iamRoleStatements |-> <<>>,
   custom |-> [topics |-> <<Entry(T1, Obj([DisplayName |-> Str(<<"FooDefinitelyHappened">>)])),
                            Entry(T3, Obj(Empty))>>,
               queues |-> <<Entry(Q1, Obj([DelaySeconds |-> Num(5)]))>>,
               defaults |-> Obj([queueSubscriptions |-> Obj([BatchSize |-> Num(10),
                                                           Enabled |-> Bool(TRUE)]),
                                 topicSubscriptions |-> Obj([Protocol |-> Str(<<"https">>),
                                                             RawMessageDelivery |-> Bool(TRUE)]),
                                 queues |-> Obj([QueueName |-> Str(<<"shared">>),
                                                 DelaySeconds |-> Num(1),
                                                 MessageRetentionPeriod |-> Num(60)]),
                                 topics |-> Obj([KmsMasterKeyId |-> Str(<<"key">>),
                                                 DisplayName |-> Str(<<"Default">>),
                                                 TopicName |-> Str(<<"shared">>)])])]]

\* first family: every form of event
FormConfigs == {FormConfig(pool) : pool \in Pools}

\* the events of the first family that subscribe to a topic: a function, the
\* function's default queue, the queue Q1 of an external topic, a named queue
OfflineForms ==
  { Str(T1),
    Obj([topic |-> Str(T1), queue |-> Bool(TRUE)]),
    Obj([topic |-> Obj([name |-> Str(T1), arn |-> ExternalArn(T1)]),
         queue |-> Obj([name |-> Str(Q1), subscription |-> BatchSize1])]),
    Obj([topic |-> Str(T2), queue |-> Str(F1 \o <<"-", "queue">>)]) }

\* an event the offline configurations declare: any of the forms for F1, the
\* direct subscription for F2
OfflineSlots ==
  [func : {F1}, event : {PubSubEvent(d) : d \in OfflineForms}]
    \cup {[func |-> F2, event |-> PubSubEvent(Str(T1))]}

\* the configurations of the first family the offline server is started with
OfflineConfigs ==
  {FormConfig(pool) : pool \in UNION {[1..n -> OfflineSlots] : n \in 0..MaxEvents}}

\* the events the endpoint's configurations declare: F1 subscribed to T1, F1
\* subscribed to T1 through the queue Q1, and F2 subscribed to T2 through a
\* queue that has the name of the topic T1
EndpointSlots ==
  { [func |-> F1, event |-> PubSubEvent(Str(T1))],
    [func |-> F1, event |-> PubSubEvent(Obj([topic |-> Str(T1), queue |-> Str(Q1)]))],
    [func |-> F2, event |-> PubSubEvent(Obj([topic |-> Str(T2), queue |-> Str(T1)]))] }

EndpointConfigs ==
  {FormConfig(pool) : pool \in UNION {[1..n -> EndpointSlots] : n \in 0..MaxEvents}}

\* what a function of the second family declares: nothing, or one subscription
\* to T1 through the queue Q1 or through its own default queue
TimeoutEvents ==
  { <<>>,
    <<PubSubEvent(Obj([topic |-> Str(T1), queue |-> Str(Q1)]))>>,
    <<PubSubEvent(Obj([topic |-> Str(T1), queue |-> Bool(TRUE)]))>> }

QueueBlocks ==
  { <<>>,
    <<Entry(Q1, Obj([DelaySeconds |-> Num(5)]))>>,
    <<Entry(Q1, Obj([VisibilityTimeout |-> Num(0)]))>>,
    <<Entry(Q1, Obj([VisibilityTimeout |-> Num(20)]))>>,
    <<Entry(Q1, Obj([VisibilityTimeout |-> Num(32)]))>> }

QueueDefaults ==
  { Obj(Empty),
    Obj([queues |-> Obj([VisibilityTimeout |-> Num(20)])]),
    Obj([queues |-> Obj([VisibilityTimeout |-> Num(40)])]) }

ExistingStatement ==
  Obj([Effect |-> Str(<<"Allow">>), Action |-> Arr(<<Str(<<"s3", ":", "GetObject">>)>>),
       Resource |-> Str(<<"*">>)])

\* second family: queue subscriptions of functions with timeouts 10, 30 and
\* none, under every visibility-timeout configuration
TimeoutConfigs ==
  { [functions |-> [f \in {F1, F2, F3} |->
                      [timeout |-> FunctionTimeout(f), events |-> evs[f]]],
     provider |-> [timeout |-> pt],
     iamRoleStatements |-> <<ExistingStatement>>,
     custom |-> [topics |-> <<>>, queues |-> qb, defaults |-> qd]]
    : evs \in [{F1, F2, F3} -> TimeoutEvents], pt \in {Undefined, Num(20)},
      qb \in QueueBlocks, qd \in QueueDefaults }

Configs == FormConfigs \cup TimeoutConfigs

\* the topic names that pubSubTopic references in the configuration may name
ResolveNames == {T1, T2}

\* the commands whose lifecycle fires after:package:initialize
PackagingCommands == {"package"}

\* ------------------------------------------------------------ the offline address
\* the Server as constructed: port '3100', host 'localhost'
ServerDefaults == [host |-> Str(<<"localhost">>), port |-> Str(<<"3100">>)]

\* Server.config({port, host}): a value that is truthy replaces the default
ServerConfig(srv, cfg) ==
  [host |-> IF Truthy(Get(cfg, "host")) THEN Get(cfg, "host") ELSE srv.host,
   port |-> IF Truthy(Get(cfg, "port")) THEN Get(cfg, "port") ELSE srv.port]

\* Server.endpointUrl: `http://${this.host}:${this.port}`
endpointUrl(srv) ==
  Str(<<"http", ":", "//">> \o srv.host.value \o <<":">> \o srv.port.value)

\* Server.endpointUrlEnvString: `SNS_ENDPOINT_URL=${this.endpointUrl}`
endpointUrlEnvString(srv) ==
  Str(<<"SNS_ENDPOINT_URL", "=">> \o endpointUrl(srv).value)

\* the address Func.execute writes out
LocalEndpointEnvString ==
  Str(<<"SNS_ENDPOINT_URL", "=", "http", ":", "//", "localhost", ":", "3100">>)

\* custom.pubSub.offline as declared: absent, a port, a host, both
OfflineBlocks ==
  { Undefined,
    Obj([port |-> Str(<<"4000">>)]),
    Obj([host |-> Str(<<"broker">>)]),
    Obj([host |-> Str(<<"broker">>), port |-> Str(<<"4000">>)]) }

\* this.offlineConfig: this.config.offline || {}
offlineConfig(block) == Or(block, Obj(Empty))

\* the options of the command line, in the order given: none, one -e, a stage
\* and two -e
OverrideA == Str(<<"A", "=", "1">>)
OverrideB == Str(<<"B", "=", "2">>)
UserOptions ==
  { <<>>,
    <<[key |-> "e", value |-> OverrideA]>>,
    <<[key |-> "stage", value |-> Str(Stage)],
      [key |-> "e", value |-> Arr(<<OverrideA, OverrideB>>)]>> }

\* a constructor step that leaves the options as they came
injectNothing(opts, srv) == opts

\* injectOfflineEnv: options.e becomes the list of the -e values given, with
\* the server's address appended
injectOfflineEnv(opts, srv) ==
  LET e == Lookup(opts, "e")
      env == IF e.type = "array" THEN e.items
             ELSE IF Truthy(e) THEN <<e>> ELSE <<>>
  IN SetKey(opts, "e", Arr(Append(env, endpointUrlEnvString(srv))))

\* the constructor's part for the offline mode: Server.config(offlineConfig),
\* and injectOfflineEnv for invoke local and pubSub offline
Construct(opts, block, cmd) ==
  LET srv == ServerConfig(ServerDefaults, offlineConfig(block))
  IN [server |-> srv,
      options |-> IF cmd \in {"invoke local", "pubSub offline"}
                    THEN injectOfflineEnv(opts, srv) ELSE opts]

\* helpers.formatCLIOptions(opts): for every key whose value is truthy, the
\* flag and the value, once for each value of an array
RECURSIVE formatCLIOptions(_)
formatCLIOptions(opts) ==
  IF opts = <<>> THEN <<>>
  ELSE LET key == Head(opts).key
           flag == Str((IF Len(key) > 1 THEN <<"-", "-">> ELSE <<"-">>) \o <<key>>)
           optionValue == Head(opts).value
           values == IF optionValue.type = "array" THEN optionValue.items
                     ELSE <<optionValue>>
           segments == [i \in 1..2 * Len(values) |->
                          IF i % 2 = 1 THEN flag ELSE values[i \div 2]]
       IN (IF Truthy(optionValue) THEN segments ELSE <<>>)
            \o formatCLIOptions(Tail(opts))

\* the arguments Func.execute starts sls with
InvokeArgs(func, invokeOpts, data) ==
  <<Str(<<"invoke">>), Str(<<"local">>)>>
    \o formatCLIOptions(invokeOpts)
    \o <<Str(<<"-", "f">>), func.name, Str(<<"-", "e">>), LocalEndpointEnvString,
         Str(<<"-", "d">>), data>>

\* the values the arguments give for one flag, in order
RECURSIVE ArgValues(_, _)
ArgValues(args, flag) ==
  IF Len(args) < 2 THEN <<>>
  ELSE IF Head(args) = flag
    THEN <<args[2]>> \o ArgValues(Tail(Tail(args)), flag)
    ELSE ArgValues(Tail(args), flag)

\* the options sls invoke local is constructed with: a flag given once is its
\* value, a flag given more than once the array of its values
InvokedOptions(args) ==
  LET e == ArgValues(args, Str(<<"-", "e">>))
      stage == ArgValues(args, Str(<<"-", "-", "stage">>))
      One(key, values) ==
        IF values = <<>> THEN <<>>
        ELSE <<[key |-> key,
                value |-> IF Len(values) = 1 THEN values[1] ELSE Arr(values)]>>
  IN One("stage", stage) \o One("e", e)

\* the -e list of the handler's process: the plugin is constructed in it for
\* invoke local, from the same custom.pubSub.offline
HandlerEnv(args, block) ==
  LET e == Lookup(Construct(InvokedOptions(args), block, "invoke local").options, "e")
  IN IF e.type = "array" THEN e.items ELSE IF Truthy(e) THEN <<e>> ELSE <<>>

\* ------------------------------------------------------------ state
VARIABLES
  functions,          \* serverless.service.functions: name -> [timeout, events]
  provider,           \* serverless.service.provider (its timeout)
  iamRoleStatements,  \* serverless.service.provider.iamRoleStatements
  custom,             \* serverless.service.custom.pubSub
  resources,          \* serverless.service.resources.Resources, in insertion order
  topics,             \* this.topics
  queues,             \* this.queues
  funcs,              \* this.funcs
  subscriptions,      \* this.subscriptions
  pc,                 \* the hook's next step, "ready" between hooks, "failed" after a throw
  passes,             \* completed runs of the hook
  error,              \* the Error a step threw, else Null
  pre,                \* the outputs and the model as they were when the running hook started
  declared,           \* the configuration as declared, before any hook ran
  resolved,           \* what the pubSubTopic variable source has returned: [address, value]
  command,            \* serverless.processedInput.commands.join(' ')
  listeners,          \* pubsub-js: the callbacks PubSub.subscribe registered, in order
  timers,             \* pubsub-js: the deliveries PubSub.publish deferred, in order
  executed,           \* the calls of subscriber.execute(data), in order
  requests,           \* the Publish requests the offline server answered
  nextId,             \* numbers the values randomId() returns
  offline,            \* custom.pubSub.offline as declared
  cliOptions,         \* the options as the command line gave them
  options,            \* this.options, as the constructor left them
  server,             \* the Server's host and port
  processes           \* the sls invoke local processes Func.execute started

serverVars == <<listeners, timers, executed, requests, nextId>>
processVars == <<offline, cliOptions, options, server, processes>>

vars == <<functions, provider, iamRoleStatements, custom, resources, topics,
          queues, funcs, subscriptions, pc, passes, error, pre, declared,
          resolved, command, serverVars, processVars>>

Snapshot ==
  [resources |-> resources, functions |-> functions,
   iamRoleStatements |-> iamRoleStatements, subscriptions |-> subscriptions,
   topics |-> topics, queues |-> queues, custom |-> custom,
   resolved |-> resolved]

InitOf(configs, commands, blocks, userOptions) ==
  \E cfg \in configs :
    /\ functions = cfg.functions
    /\ provider = cfg.provider
    /\ iamRoleStatements = cfg.iamRoleStatements
    /\ custom = cfg.custom
    /\ resources = <<>>
    /\ topics = <<>>
    /\ queues = <<>>
    /\ funcs = <<>>
    /\ subscriptions = <<>>
    /\ pc = "ready"
    /\ passes = 0
    /\ error = Null
    /\ pre = [resources |-> <<>>, functions |-> cfg.functions,
              iamRoleStatements |-> cfg.iamRoleStatements, subscriptions |-> <<>>,
              topics |-> <<>>, queues |-> <<>>, custom |-> cfg.custom,
              resolved |-> {}]
    /\ declared = [functions |-> cfg.functions, custom |-> cfg.custom]
    /\ resolved = {}
    /\ command \in commands
    /\ listeners = <<>>
    /\ timers = <<>>
    /\ executed = <<>>
    /\ requests = <<>>
    /\ nextId = 1
    /\ \E block \in blocks, opts \in userOptions :
         /\ offline = block
         /\ cliOptions = opts
         /\ options = Construct(opts, block, command).options
         /\ server = Construct(opts, block, command).server
    /\ processes = <<>>

\* the plugin constructed without an offline block and without options
InitWith(configs, commands) == InitOf(configs, commands, {Undefined}, {<<>>})

\* the plugin as constructed for a packaging command or for invoke local
Init == InitWith(Configs, PackagingCommands \cup {"invoke local"})

\* ------------------------------------------------------------ the entity model
\* collection.find(i => i.name === name): the index of the first match, else 0
Find(name, collection) ==
  IF \E i \in 1..Len(collection) : collection[i].name = name
    THEN CHOOSE i \in 1..Len(collection) :
           /\ collection[i].name = name
           /\ \A j \in 1..(i - 1) : collection[j].name # name
    ELSE 0

\* getOrSet without the find: every call creates
getOrSetAlwaysCreates(name, collection, created) == Append(collection, created)

\* getOrSet: the collection after the call; the item returned is the one that
\* Find then gives
getOrSet(name, collection, created) ==
  IF Find(name, collection) # 0 THEN collection ELSE Append(collection, created)

\* this.customTopics[name], this.customQueues[name]
customTopics(name) ==
  IF name.type = "string" THEN Lookup(custom.topics, name.value) ELSE Undefined
customQueues(name) ==
  IF name.type = "string" THEN Lookup(custom.queues, name.value) ELSE Undefined

\* new Topic({name, vendorConfig: this.customTopics[name] || {}, arn})
NewTopic(topicName, arn) ==
  [name |-> topicName, vendorConfig |-> Or(customTopics(topicName), Obj(Empty)),
   arn |-> arn]

\* new Queue({name, vendorConfig: this.customQueues[name] || {}}).  The custom
\* block's object, when there is one, is the queue's vendorConfig itself (no
\* copy): aliased says so, and own is the fresh {} of the other case.
NewQueue(queueName) ==
  [name |-> queueName, aliased |-> Truthy(customQueues(queueName)),
   own |-> Obj(Empty)]

\* queue.vendorConfig
QueueVendorConfig(queue, cust) ==
  IF queue.aliased THEN Lookup(cust.queues, queue.name.value) ELSE queue.own

\* new Func({name, serverlessConfig}): serverlessConfig is the live declaration
\* functions[name]
NewFunc(funcName) == [name |-> Str(funcName)]

\* getTopic, getQueue, getFunc: the collection after the call
getTopic(tps, topicName, arn) == getOrSet(topicName, tps, NewTopic(topicName, arn))
getQueue(qs, queueName) == getOrSet(queueName, qs, NewQueue(queueName))
getFunc(fs, funcName) == getOrSet(Str(funcName), fs, NewFunc(funcName))

\* func.pubSubEvents: events.filter(({pubSub}) => pubSub)
pubSubEvents(events) == SelectSeq(events, LAMBDA e : Truthy(Get(e, "pubSub")))

\* the three kinds of Subscription; origin and subscriber are the entities'
\* positions in topics / queues / funcs (entities are never removed)
Subscription(kind, origin, subscriber, vendorConfig) ==
  [kind |-> kind, origin |-> origin, subscriber |-> subscriber,
   vendorConfig |-> vendorConfig]

NoTopicError(funcName) == [message |-> "No topic could be identified", func |-> funcName]

\* a collection that forgets the topic's subscription to the queue
CollectEventQueueOnly(m, funcName, pubSub) ==
  LET topicName == pullTopicNameFromEvent(pubSub)
      tps == getTopic(m.topics, topicName, topicExternalArn(pubSub))
      topic == Find(topicName, tps)
      func == Find(Str(funcName), m.funcs)
      queueName == pullQueueNameFromEvent(pubSub, m.funcs[func])
      qs == getQueue(m.queues, queueName)
  IN IF ~Truthy(topicName)
       THEN [m EXCEPT !.error = [message |-> "No topic could be identified",
                                 func |-> funcName]]
     ELSE IF Truthy(queueName)
       THEN [m EXCEPT !.topics = tps, !.queues = qs,
               !.subscriptions = @ \o
                 << Subscription("QueueToFunc", Find(queueName, qs), func,
                                 pullQueueSubscriptionDetailsFromEvent(pubSub)) >>]
       ELSE [m EXCEPT !.topics = tps,
               !.subscriptions = @ \o
                 << Subscription("TopicToFunc", topic, func,
                                 pullTopicSubscriptionDetailsFromEvent(pubSub)) >>]

\* the body of func.pubSubEvents.forEach in collectPubSubResourcesFromFunctions
CollectEvent(m, funcName, pubSub) ==
  LET topicName == pullTopicNameFromEvent(pubSub)
      externalArn == topicExternalArn(pubSub)
      tps == getTopic(m.topics, topicName, externalArn)
      topic == Find(topicName, tps)
      topicSubDetails == pullTopicSubscriptionDetailsFromEvent(pubSub)
      func == Find(Str(funcName), m.funcs)
      queueName == pullQueueNameFromEvent(pubSub, m.funcs[func])
      qs == getQueue(m.queues, queueName)
      queue == Find(queueName, qs)
  IN IF ~Truthy(topicName) THEN [m EXCEPT !.error = NoTopicError(funcName)]
     ELSE IF Truthy(queueName)
       THEN [m EXCEPT !.topics = tps, !.queues = qs,
               !.subscriptions = @ \o
                 << Subscription("QueueToFunc", queue, func,
                                 pullQueueSubscriptionDetailsFromEvent(pubSub)),
                    Subscription("TopicToQueue", topic, queue, topicSubDetails) >>]
       ELSE [m EXCEPT !.topics = tps,
               !.subscriptions = @ \o
                 << Subscription("TopicToFunc", topic, func, topicSubDetails) >>]

\* a forEach that goes on with the function's later events after the throw
RECURSIVE CollectEventsNoAbort(_, _, _)
CollectEventsNoAbort(m, funcName, events) ==
  IF events = <<>> THEN m
  ELSE CollectEventsNoAbort(
         LET n == CollectEvent(m, funcName, Head(events).fields.pubSub)
         IN IF m.error # Null THEN [n EXCEPT !.error = m.error] ELSE n,
         funcName, Tail(events))

\* forEach over one function's pubSub events; a throw ends it
RECURSIVE CollectEvents(_, _, _)
CollectEvents(m, funcName, events) ==
  IF events = <<>> \/ m.error # Null THEN m
  ELSE CollectEvents(CollectEvent(m, funcName, Head(events).fields.pubSub),
                     funcName, Tail(events))

\* Object.keys(funcs).forEach: getFunc, then the function's pubSub events
RECURSIVE CollectFunctions(_, _)
CollectFunctions(m, funcNames) ==
  IF funcNames = <<>> \/ m.error # Null THEN m
  ELSE LET f == Head(funcNames)
           withFunc == [m EXCEPT !.funcs = getFunc(m.funcs, f)]
       IN CollectFunctions(
            CollectEvents(withFunc, f, pubSubEvents(functions[f].events)),
            Tail(funcNames))

Model == [topics |-> topics, queues |-> queues, funcs |-> funcs,
          subscriptions |-> subscriptions, error |-> Null]

\* ------------------------------------------------------------ the hook's steps
\* collectPubSubResourcesFromFunctions, the first step of after:package:initialize
\* and of pubSub:offline:offline
collectPubSubResourcesFromFunctions ==
  /\ pc = "ready"
  /\ command # "invoke local"
  /\ passes < MaxPasses
  /\ LET m == CollectFunctions(Model, FuncOrder)
     IN /\ topics' = m.topics
        /\ queues' = m.queues
        /\ funcs' = m.funcs
        /\ subscriptions' = m.subscriptions
        /\ error' = m.error
        /\ pc' = IF m.error # Null THEN "failed" ELSE "collectCustom"
  /\ pre' = Snapshot
  /\ UNCHANGED <<functions, provider, iamRoleStatements, custom, resources,
                 passes, declared,
                 resolved, command, serverVars, processVars>>

\* for (name in this.customTopics) getTopic(name)
RECURSIVE CollectCustomTopics(_, _)
CollectCustomTopics(tps, entries) ==
  IF entries = <<>> THEN tps
  ELSE CollectCustomTopics(getTopic(tps, Str(Head(entries).key), Null), Tail(entries))

\* for (name in this.customQueues) getQueue(name)
RECURSIVE CollectCustomQueues(_, _)
CollectCustomQueues(qs, entries) ==
  IF entries = <<>> THEN qs
  ELSE CollectCustomQueues(getQueue(qs, Str(Head(entries).key)), Tail(entries))

\* collectPubSubResourcesFromCustomConfig
collectPubSubResourcesFromCustomConfig ==
  /\ pc = "collectCustom"
  /\ topics' = CollectCustomTopics(topics, custom.topics)
  /\ queues' = CollectCustomQueues(queues, custom.queues)
  /\ pc' = IF command = "pubSub offline" THEN "startServer" ELSE "adjust"
  /\ UNCHANGED <<functions, provider, iamRoleStatements, custom, resources,
                 funcs, subscriptions, passes, error, pre, declared,
                 resolved, command, serverVars, processVars>>

\* this.defaults.<kind> || {}
defaultsOf(cust, kind) == Or(Get(cust.defaults, kind), Obj(Empty))
queueDefaults(cust) == defaultsOf(cust, "queues")
topicDefaults(cust) == defaultsOf(cust, "topics")
topicSubscriptionDefaults(cust) == defaultsOf(cust, "topicSubscriptions")
queueSubscriptionDefaults(cust) == defaultsOf(cust, "queueSubscriptions")

\* the keys of subsByQueue in insertion order: the names of the queues that
\* have a QueueToFunc subscription, by first such subscription
RECURSIVE subsByQueueKeys(_, _, _)
subsByQueueKeys(subs, qs, seen) ==
  IF subs = <<>> THEN seen
  ELSE LET sub == Head(subs)
           name == qs[sub.origin].name
       IN IF sub.kind = "QueueToFunc" /\ \A i \in 1..Len(seen) : seen[i] # name
            THEN subsByQueueKeys(Tail(subs), qs, Append(seen, name))
            ELSE subsByQueueKeys(Tail(subs), qs, seen)

\* subsByQueue[queueName]
subsByQueue(subs, qs, queueName) ==
  SelectSeq(subs, LAMBDA sub : sub.kind = "QueueToFunc" /\ qs[sub.origin].name = queueName)

\* the first timeout instead of the largest
FirstTimeout(timeouts) == timeouts[1]

\* Math.max(...timeouts)
MathMax(timeouts) ==
  CHOOSE x \in {timeouts[i] : i \in 1..Len(timeouts)} :
    \A i \in 1..Len(timeouts) : timeouts[i] <= x

\* the default of the chain  timeout || providerTimeout || 6  and the margin
\* added to the longest function timeout
DefaultTimeout == 6
VisibilityMargin == 5

\* sub.subscriber.serverlessConfig.timeout || providerTimeout || 6
subscriberTimeout(sub, fs) ==
  Or(Or(functions[fs[sub.subscriber].name.value].timeout, provider.timeout),
     Num(DefaultTimeout)).num

\* an error that reports the margin-inflated minimum
VisibilityErrorWithMargin(queueName, configuredTimeout, maxFunctionTimeout) ==
  [message |-> "Specified visibility timeout is less than function timeout",
   queue |-> queueName, configuredTimeout |-> configuredTimeout,
   maxFunctionTimeout |-> maxFunctionTimeout + 5]

VisibilityError(queueName, configuredTimeout, maxFunctionTimeout) ==
  [message |-> "Specified visibility timeout is less than function timeout",
   queue |-> queueName, configuredTimeout |-> configuredTimeout,
   maxFunctionTimeout |-> maxFunctionTimeout]

\* vendorConfig.VisibilityTimeout = value; queue.vendorConfig = vendorConfig
\* a is [queues, custom, error]; the write lands in the custom block's object
\* when that object is the queue's vendorConfig
SetVisibilityTimeout(a, q, value) ==
  LET queue == a.queues[q]
      written == Obj(Assign(QueueVendorConfig(queue, a.custom).fields,
                            [VisibilityTimeout |-> Num(value)]))
  IN IF queue.aliased
       THEN [a EXCEPT !.custom.queues = SetKey(@, queue.name.value, written)]
       ELSE [a EXCEPT !.queues[q].own = written]

\* the body of  for (let queueName in subsByQueue)  in adjustQueueVisibilityTimeout
AdjustQueue(a, subs, fs, queueName) ==
  LET mine == subsByQueue(subs, a.queues, queueName)
      q == mine[1].origin
      vendorConfig == Or(QueueVendorConfig(a.queues[q], a.custom), Obj(Empty))
      configuredTimeout == Or(Get(vendorConfig, "VisibilityTimeout"),
                              Get(queueDefaults(a.custom), "VisibilityTimeout"))
      timeouts == [i \in 1..Len(mine) |-> subscriberTimeout(mine[i], fs)]
      maxFunctionTimeout == MathMax(timeouts)
  IN IF Truthy(configuredTimeout)
       THEN IF configuredTimeout.num < maxFunctionTimeout
              THEN [a EXCEPT !.error = VisibilityError(a.queues[q].name,
                                          configuredTimeout.num, maxFunctionTimeout)]
              ELSE a
       ELSE SetVisibilityTimeout(a, q, maxFunctionTimeout + VisibilityMargin)

RECURSIVE AdjustQueues(_, _, _, _)
AdjustQueues(a, subs, fs, queueNames) ==
  IF queueNames = <<>> \/ a.error # Null THEN a
  ELSE AdjustQueues(AdjustQueue(a, subs, fs, Head(queueNames)), subs, fs,
                    Tail(queueNames))

\* ------------------------------------------------------------ derived outputs
\* this.offlineMode: set by the constructor for 'invoke local' and
\* 'pubSub offline' only, neither of which runs the packaging hook
offlineMode == command = "invoke local" \/ command = "pubSub offline"

Ref(logicalId) == Obj([Ref |-> Str(logicalId)])
GetAttArn(logicalId) == Obj("Fn::GetAtt" :> Arr(<<Str(logicalId), Str(<<"Arn">>)>>))

\* an address without the stack prefix
formatTopicArnUnprefixed(topic) ==
  Str(<<"arn", ":", "aws", ":", "sns", ":", "us", "-", "east", "-", "1", ":",
        "1234567890123", ":">> \o topic.name.value)

\* formatTopicArn
formatTopicArn(topic) ==
  IF offlineMode
    THEN Str(<<"arn", ":", "aws", ":", "sns", ":", "us", "-", "east", "-", "1", ":",
               "1234567890123", ":">> \o namespaceResource(topic.name.value))
    ELSE Obj("Fn::Join" :>
           Arr(<<Str(<<":">>),
                 Arr(<<Str(<<"arn">>), Ref(<<"AWS::Partition">>), Str(<<"sns">>),
                       Ref(<<"AWS::Region">>), Ref(<<"AWS::AccountId">>),
                       Str(namespaceResource(topic.name.value))>>)>>))

\* the event generateSQSEventFromSubscription pushes
SQSEvent(sub) ==
  Obj([sqs |-> Obj([arn |-> GetAttArn(getActualQueueLogicalId(queues[sub.origin].name.value))])])

\* the event generateSNSEventFromSubscription pushes
SNSEvent(sub) ==
  IF Truthy(topics[sub.origin].arn)
    THEN Obj([sns |-> Obj([arn |-> topics[sub.origin].arn])])
    ELSE Obj([sns |-> Obj([arn |-> formatTopicArn(topics[sub.origin]),
                           topicName |-> Str(namespaceResource(topics[sub.origin].name.value))])])

\* subscriptions.forEach of generateAdditionalEvents: func.events.push on the
\* live declaration of the subscriber
RECURSIVE AdditionalEvents(_, _)
AdditionalEvents(fns, subs) ==
  IF subs = <<>> THEN fns
  ELSE LET sub == Head(subs)
           f == funcs[sub.subscriber].name.value
       IN CASE sub.kind = "TopicToFunc" ->
                 AdditionalEvents([fns EXCEPT ![f].events = Append(@, SNSEvent(sub))],
                                  Tail(subs))
            [] sub.kind = "QueueToFunc" ->
                 AdditionalEvents([fns EXCEPT ![f].events = Append(@, SQSEvent(sub))],
                                  Tail(subs))
            [] OTHER -> AdditionalEvents(fns, Tail(subs))

\* an event step that rebuilds each events list from the subscriptions alone
generateEventsDroppingDeclared ==
  /\ pc = "events"
  /\ functions' = AdditionalEvents(
                     [f \in DOMAIN functions |-> [functions[f] EXCEPT !.events = <<>>]],
                     subscriptions)
  /\ pc' = "resources"
  /\ UNCHANGED <<provider, iamRoleStatements, custom, resources, topics, queues,
                 funcs, subscriptions, passes, error, pre, declared, resolved, command, serverVars, processVars>>

\* generateAdditionalEvents
generateAdditionalEvents ==
  /\ pc = "events"
  /\ functions' = AdditionalEvents(functions, subscriptions)
  /\ pc' = "resources"
  /\ UNCHANGED <<provider, iamRoleStatements, custom, resources, topics, queues,
                 funcs, subscriptions, passes, error, pre, declared,
                 resolved, command, serverVars, processVars>>

Resource(type, properties) == [Type |-> type, Properties |-> properties]

\* generateSQSResource
generateSQSResource(res, queue) ==
  SetKey(res, getActualQueueLogicalId(queue.name.value),
    Resource("AWS::SQS::Queue",
      Assign(Assign(Fields(queueDefaults(custom)),
                    [QueueName |-> Str(namespaceResource(queue.name.value))]),
             Fields(QueueVendorConfig(queue, custom)))))

\* a topic resource in which the defaults block overrides the computed name
generateSNSResourceDefaultsLast(res, topic) ==
  SetKey(res, getTopicLogicalId(topic.name.value),
    Resource("AWS::SNS::Topic",
      Assign(Assign([TopicName |-> Str(namespaceResource(topic.name.value))],
                    Fields(topicDefaults(custom))),
             Fields(topic.vendorConfig))))

\* generateSNSResource
generateSNSResource(res, topic) ==
  SetKey(res, getTopicLogicalId(topic.name.value),
    Resource("AWS::SNS::Topic",
      Assign(Assign(Fields(topicDefaults(custom)),
                    [TopicName |-> Str(namespaceResource(topic.name.value))]),
             Fields(topic.vendorConfig))))

\* generateSNSSubscription, for a TopicToFunc or a TopicToQueue subscription
generateSNSSubscription(res, sub) ==
  LET toFunc == sub.kind = "TopicToFunc"
      origin == topics[sub.origin]
      subscriberName == IF toFunc THEN funcs[sub.subscriber].name.value
                        ELSE queues[sub.subscriber].name.value
      logicalId == IF toFunc
                     THEN getLambdaSnsSubscriptionLogicalId(subscriberName, origin.name.value)
                     ELSE getQueueSubscriptionLogicalId(origin.name.value, subscriberName)
      props == [TopicArn |-> Or(origin.arn, Ref(getTopicLogicalId(origin.name.value))),
                Protocol |-> IF toFunc THEN Str(<<"lambda">>) ELSE Str(<<"sqs">>),
                Endpoint |-> GetAttArn(IF toFunc THEN getLambdaLogicalId(subscriberName)
                                       ELSE getActualQueueLogicalId(subscriberName))]
  IN SetKey(res, logicalId,
       Resource("AWS::SNS::Subscription",
         Assign(Assign(Fields(topicSubscriptionDefaults(custom)), props),
                Fields(sub.vendorConfig))))

\* generateSQSLambdaSubscription, for a QueueToFunc subscription
generateSQSLambdaSubscription(res, sub) ==
  LET queueName == queues[sub.origin].name.value
      funcName == funcs[sub.subscriber].name.value
      props == [EventSourceArn |-> GetAttArn(getActualQueueLogicalId(queueName)),
                FunctionName |-> GetAttArn(getLambdaLogicalId(funcName))]
  IN SetKey(res, getQueueLogicalId(funcName, getActualQueueLogicalId(queueName)),
       Resource("AWS::Lambda::EventSourceMapping",
         Assign(Assign(Fields(queueSubscriptionDefaults(custom)), props),
                Fields(sub.vendorConfig))))

RECURSIVE QueueResources(_, _)
QueueResources(res, qs) ==
  IF qs = <<>> THEN res
  ELSE QueueResources(generateSQSResource(res, Head(qs)), Tail(qs))

\* topics.filter(t => !t.arn).forEach(generateSNSResource)
RECURSIVE TopicResources(_, _)
TopicResources(res, tps) ==
  IF tps = <<>> THEN res
  ELSE IF ~Truthy(Head(tps).arn)
    THEN TopicResources(generateSNSResource(res, Head(tps)), Tail(tps))
    ELSE TopicResources(res, Tail(tps))

RECURSIVE SubscriptionResources(_, _)
SubscriptionResources(res, subs) ==
  IF subs = <<>> THEN res
  ELSE IF Head(subs).kind = "QueueToFunc"
    THEN SubscriptionResources(generateSQSLambdaSubscription(res, Head(subs)), Tail(subs))
    ELSE SubscriptionResources(generateSNSSubscription(res, Head(subs)), Tail(subs))

\* an adjustment that writes each queue's resource in the same step, before
\* the validation has passed
adjustWhileGenerating ==
  /\ pc = "adjust"
  /\ LET a == AdjustQueues([queues |-> queues, custom |-> custom, error |-> Null],
                           subscriptions, funcs,
                           subsByQueueKeys(subscriptions, queues, <<>>))
     IN /\ queues' = a.queues
        /\ custom' = a.custom
        /\ error' = a.error
        /\ pc' = IF a.error # Null THEN "failed" ELSE "events"
  /\ resources' = QueueResources(resources, queues)
  /\ UNCHANGED <<functions, provider, iamRoleStatements, topics,
                 funcs, subscriptions, passes, pre, declared,
                 resolved, command, serverVars, processVars>>

\* adjustQueueVisibilityTimeout
adjustQueueVisibilityTimeout ==
  /\ pc = "adjust"
  /\ LET a == AdjustQueues([queues |-> queues, custom |-> custom, error |-> Null],
                           subscriptions, funcs,
                           subsByQueueKeys(subscriptions, queues, <<>>))
     IN /\ queues' = a.queues
        /\ custom' = a.custom
        /\ error' = a.error
        /\ pc' = IF a.error # Null THEN "failed" ELSE "events"
  /\ UNCHANGED <<functions, provider, iamRoleStatements, resources, topics,
                 funcs, subscriptions, passes, pre, declared,
                 resolved, command, serverVars, processVars>>

\* generateAllCustomResources
generateAllCustomResources ==
  /\ pc = "resources"
  /\ resources' = SubscriptionResources(
                    TopicResources(QueueResources(resources, queues), topics),
                    subscriptions)
  /\ pc' = "publish"
  /\ UNCHANGED <<functions, provider, iamRoleStatements, custom, topics, queues,
                 funcs, subscriptions, passes, error, pre, declared,
                 resolved, command, serverVars, processVars>>

\* topics.map(t => t.arn || this.formatTopicArn(t))
PublishResources(tps) ==
  [i \in 1..Len(tps) |-> Or(tps[i].arn, formatTopicArn(tps[i]))]

PublishStatement(tps) ==
  Obj([Effect |-> Str(<<"Allow">>),
       Action |-> Arr(<<Str(<<"sns", ":", "Publish">>)>>),
       Resource |-> Arr(PublishResources(tps))])

\* a publish step that replaces the statements list by its one statement
publishReplacingStatements ==
  /\ pc = "publish"
  /\ iamRoleStatements' = <<PublishStatement(topics)>>
  /\ pc' = "policy"
  /\ UNCHANGED <<functions, provider, custom, resources, topics, queues, funcs,
                 subscriptions, passes, error, pre, declared, resolved, command, serverVars, processVars>>

\* allowLambdasToPublishSNS
allowLambdasToPublishSNS ==
  /\ pc = "publish"
  /\ iamRoleStatements' = Append(iamRoleStatements, PublishStatement(topics))
  /\ pc' = "policy"
  /\ UNCHANGED <<functions, provider, custom, resources, topics, queues, funcs,
                 subscriptions, passes, error, pre, declared,
                 resolved, command, serverVars, processVars>>

\* a filter that keeps the first item only
firstOnly(iterable) == IF iterable = <<>> THEN <<>> ELSE <<Head(iterable)>>

\* unique(iterable, selector): results only ever receives the Set itself
\* (results.add(results)), so results.has(selector(item)) is false for every
\* item and the filter keeps them all
unique(iterable) == iterable

SNSToSQSPolicyId == <<"SNSToSQSPolicy">>

\* the policy object allowSNSToSQSSubscriptions builds
NewPolicy(queueArns, topicArns) ==
  Resource("AWS::SQS::QueuePolicy",
    [Queues |-> Arr(queueArns),
     PolicyDocument |->
       Obj([Version |-> Str(<<"2012", "-", "10", "-", "17">>),
            Statement |-> Arr(<<
              Obj([Effect |-> Str(<<"Allow">>), Principal |-> Str(<<"*">>),
                   Action |-> Str(<<"sqs", ":", "SendMessage">>),
                   Resource |-> Str(<<"*">>),
                   Condition |-> Obj([ArnEquals |->
                     Obj("aws:SourceArn" :> Arr(topicArns))])])>>)])])

\* a last step that writes the policy only when a TopicToQueue subscription exists
allowSubscribedQueuesOnly ==
  /\ pc = "policy"
  /\ LET queueArns == [i \in 1..Len(queues) |-> Ref(getActualQueueLogicalId(queues[i].name.value))]
         topicArns == [i \in 1..Len(topics) |->
                         Or(topics[i].arn, Ref(getTopicLogicalId(topics[i].name.value)))]
     IN resources' = IF \E k \in 1..Len(subscriptions) : subscriptions[k].kind = "TopicToQueue"
                       THEN SetKey(resources, SNSToSQSPolicyId, NewPolicy(queueArns, topicArns))
                       ELSE resources
  /\ pc' = "ready"
  /\ passes' = passes + 1
  /\ UNCHANGED <<functions, provider, iamRoleStatements, custom, topics, queues,
                 funcs, subscriptions, error, pre, declared, resolved, command, serverVars, processVars>>

\* allowSNSToSQSSubscriptions, the last step of the hook
allowSNSToSQSSubscriptions ==
  /\ pc = "policy"
  /\ LET uq == unique(queues)
         ut == unique(topics)
         queueArns == [i \in 1..Len(uq) |-> Ref(getActualQueueLogicalId(uq[i].name.value))]
         topicArns == [i \in 1..Len(ut) |->
                         Or(ut[i].arn, Ref(getTopicLogicalId(ut[i].name.value)))]
         existing == Lookup(resources, SNSToSQSPolicyId)
         policy == IF existing # Undefined THEN existing
                   ELSE NewPolicy(queueArns, topicArns)
     IN resources' = IF Len(queueArns) > 0 /\ Len(topicArns) > 0
                       THEN SetKey(resources, SNSToSQSPolicyId, policy)
                       ELSE resources
  /\ pc' = "ready"
  /\ passes' = passes + 1
  /\ UNCHANGED <<functions, provider, iamRoleStatements, custom, topics, queues,
                 funcs, subscriptions, error, pre, declared,
                 resolved, command, serverVars, processVars>>

\* a variable source that formats the address of a topic it does not register
resolveWithoutTopic(address) ==
  /\ pc = "ready"
  /\ resolved' = resolved \cup
       {[address |-> address, value |-> formatTopicArn([name |-> Str(address)])]}
  /\ UNCHANGED <<functions, provider, iamRoleStatements, custom, resources, topics,
                 queues, funcs, subscriptions, pc, passes, error, pre, declared,
                 command, serverVars, processVars>>

\* configurationVariablesSources.pubSubTopic.resolve({address}): getTopic(address)
\* and the formatted arn; the host calls it between hooks, never inside one
resolvePubSubTopic(address) ==
  /\ pc = "ready"
  /\ topics' = getTopic(topics, Str(address), Null)
  /\ resolved' = resolved \cup
       {[address |-> address,
         value |-> formatTopicArn(topics'[Find(Str(address), topics')])]}
  /\ UNCHANGED <<functions, provider, iamRoleStatements, custom, resources, queues,
                 funcs, subscriptions, pc, passes, error, pre, declared, command, serverVars, processVars>>

Next ==
  \/ collectPubSubResourcesFromFunctions
  \/ collectPubSubResourcesFromCustomConfig
  \/ adjustQueueVisibilityTimeout
  \/ generateAdditionalEvents
  \/ generateAllCustomResources
  \/ allowLambdasToPublishSNS
  \/ allowSNSToSQSSubscriptions
  \/ \E address \in ResolveNames : resolvePubSubTopic(address)

Spec == Init /\ [][Next]_vars

\* ------------------------------------------------------------ the offline server
\* the Publish requests one run of the server is sent
MaxPublishes == 2

\* the topics the requests name, and the Message they carry
PublishNames == {T1, T2}
Message == Str(<<"hello">>)

\* randomId(): sixteen random bytes in hex, fresh on every call
randomId(k) == Str(<<"id", ToString(k)>>)

\* JSON.stringify(v): a string, kept apart from the value it encodes
JSONstringify(v) == [type |-> "string", json |-> v]

\* arn.split(':').slice(-1)[0]
RECURSIVE LastSegment(_)
LastSegment(tokens) ==
  IF \E i \in 1..Len(tokens) : tokens[i] = ":"
    THEN LastSegment(Tail(tokens))
    ELSE tokens

\* without any occurrence of pattern
RECURSIVE RemoveAll(_, _)
RemoveAll(tokens, pattern) ==
  IF Len(tokens) < Len(pattern) THEN tokens
  ELSE IF SubSeq(tokens, 1, Len(pattern)) = pattern
    THEN RemoveAll(SubSeq(tokens, Len(pattern) + 1, Len(tokens)), pattern)
    ELSE <<Head(tokens)>> \o RemoveAll(Tail(tokens), pattern)

\* s.replace(pattern, ''): without the first occurrence of pattern
RECURSIVE RemoveFirst(_, _)
RemoveFirst(tokens, pattern) ==
  IF Len(tokens) < Len(pattern) THEN tokens
  ELSE IF SubSeq(tokens, 1, Len(pattern)) = pattern
    THEN SubSeq(tokens, Len(pattern) + 1, Len(tokens))
    ELSE <<Head(tokens)>> \o RemoveFirst(Tail(tokens), pattern)

\* subscription.origin
OriginOf(sub) ==
  IF sub.kind = "QueueToFunc" THEN queues[sub.origin] ELSE topics[sub.origin]

\* the first listener of the channel only
FirstListening(channel) ==
  LET all == SelectSeq(listeners, LAMBDA l : l.channel = channel)
  IN IF all = <<>> THEN all ELSE <<Head(all)>>

\* pubsub-js: the callbacks subscribed to the channel, in subscription order
Listening(channel) == SelectSeq(listeners, LAMBDA l : l.channel = channel)

\* PubSub.publish(channel, data): nothing without a subscriber, else a
\* delivery deferred with setTimeout
PubSubPublish(pending, channel, data) ==
  IF Listening(channel) = <<>> THEN pending
  ELSE Append(pending, [channel |-> channel, data |-> data])

\* topic.formatMessageDetails(messageId, message), without its clock reading
formatMessageDetails(topic, messageId, message) ==
  Obj([SignatureVersion |-> Str(<<"1">>), Signature |-> Str(<<"EXAMPLE">>),
       SigningCertUrl |-> Str(<<"EXAMPLE">>), MessageId |-> messageId,
       Message |-> message, MessageAttributes |-> Obj(Empty),
       Type |-> Str(<<"Notification">>), UnsubscribeUrl |-> Str(<<"EXAMPLE">>),
       TopicArn |-> Str(<<"arn", ":", "aws", ":", "sns", ":", "us", "-", "east",
                          "-", "1", ":", "1234567890123", ":">> \o topic.name.value),
       Subject |-> Str(<<"TestInvoke">>)])

\* an encoding whose queue record carries the message encoded once more
encodeMessageRewrapping(sub, messageId, message) ==
  IF sub.kind = "QueueToFunc"
    THEN JSONstringify(Obj([Records |-> Arr(<<
           Obj([messageId |-> messageId, receiptHandle |-> Str(<<>>),
                body |-> JSONstringify(message),
                eventSource |-> Str(<<"aws:sqs">>)])>>)]))
  ELSE IF sub.kind = "TopicToQueue"
    THEN JSONstringify(formatMessageDetails(topics[sub.origin], messageId, message))
    ELSE JSONstringify(Obj([Records |-> Arr(<<
           Obj([EventVersion |-> Str(<<"1.0">>), EventSource |-> Str(<<"aws:sns">>),
                Sns |-> formatMessageDetails(topics[sub.origin], messageId,
                                             message)])>>)]))

\* subscription.encodeMessage(messageId, message) of the three kinds, without
\* the clock readings and the random SenderId of the queue record; this.name
\* of a subscription is undefined
encodeMessage(sub, messageId, message) ==
  IF sub.kind = "QueueToFunc"
    THEN JSONstringify(Obj([Records |-> Arr(<<
           Obj([messageId |-> messageId, receiptHandle |-> Str(<<>>),
                body |-> message, messageAttributes |-> Obj(Empty),
                md5OfBody |-> Str(<<"9bb58f26192e4ba00f01e2e7b136bbd8">>),
                eventSource |-> Str(<<"aws:sqs">>),
                eventSourceARN |-> Str(<<"arn", ":", "aws", ":", "sqs", ":", "us", "-",
                                         "east", "-", "1", ":", "1234567890123", ":",
                                         "undefined">>),
                awsRegion |-> Str(<<"us", "-", "east", "-", "1">>)])>>)]))
  ELSE IF sub.kind = "TopicToQueue"
    THEN JSONstringify(formatMessageDetails(topics[sub.origin], messageId, message))
    ELSE JSONstringify(Obj([Records |-> Arr(<<
           Obj([EventVersion |-> Str(<<"1.0">>), EventSource |-> Str(<<"aws:sns">>),
                Sns |-> formatMessageDetails(topics[sub.origin], messageId,
                                             message)])>>)]))

\* the callback subscribe() registers, run for one delivery: encodeMessage,
\* then subscriber.execute(encoded).  Func.execute starts sls invoke local with
\* the data; Queue.execute publishes it on the queue's channel under a new
\* randomId.  st is [timers, executed, nextId, processes]; a process is kept
\* as the call of execute that started it.
Callback(st, i, data) ==
  LET sub == subscriptions[i]
      encoded == encodeMessage(sub, data.messageId, data.message)
      ran == Append(st.executed, [subscription |-> i, data |-> encoded])
  IN IF sub.kind = "TopicToQueue"
       THEN [timers |-> PubSubPublish(st.timers, queues[sub.subscriber].name,
                                      [messageId |-> randomId(st.nextId),
                                       message |-> encoded]),
             executed |-> ran,
             nextId |-> st.nextId + 1,
             processes |-> st.processes]
       ELSE [st EXCEPT !.executed = ran,
                       !.processes =
                         Append(@, [execution |-> Len(ran), status |-> "running"])]

\* the arguments process p was started with: a function's invokeOpts are
\* this.options, its data the encoded message
ProcessArgs(p) ==
  LET call == executed[processes[p].execution]
  IN InvokeArgs(funcs[subscriptions[call.subscription].subscriber], options, call.data)

\* pubsub-js: one deferred delivery calls every callback of the channel
RECURSIVE Deliver(_, _, _)
Deliver(st, called, data) ==
  IF called = <<>> THEN st
  ELSE Deliver(Callback(st, Head(called).subscription, data), Tail(called), data)

\* startServer, the last step of pubSub:offline:offline: Server.start, then
\* subscribe() of every subscription; its promise never settles
startServer ==
  /\ pc = "startServer"
  /\ listeners' = [i \in 1..Len(subscriptions) |->
                     [channel |-> OriginOf(subscriptions[i]).name, subscription |-> i]]
  /\ pc' = "serving"
  /\ UNCHANGED <<functions, provider, iamRoleStatements, custom, resources, topics,
                 queues, funcs, subscriptions, passes, error, pre, declared,
                 resolved, command, timers, executed, requests, nextId,
                 processVars>>

\* req.body as bodyParser.urlencoded leaves it: the fields of the form, a field
\* that is missing undefined, a field sent twice an array
RequestBody(action, topicArn) ==
  [Action |-> action, TopicArn |-> topicArn, Message |-> Message]
PublishBody(topicArn) == RequestBody(Str(<<"Publish">>), Str(topicArn))

\* a 200 answer whose MessageId is the RequestId
PublishResponseOwnId(messageId, requestId) ==
  [status |-> 200, body |-> "PublishResponse", MessageId |-> requestId,
   RequestId |-> requestId]

\* the 200 answer, the 404 answer, and the answer express gives for a handler
\* that threw
PublishResponse(messageId, requestId) ==
  [status |-> 200, body |-> "PublishResponse", MessageId |-> messageId,
   RequestId |-> requestId]
ErrorResponse(requestId) ==
  [status |-> 404, body |-> "ErrorResponse", MessageId |-> Null,
   RequestId |-> requestId]
UncaughtResponse ==
  [status |-> 500, body |-> "TypeError", MessageId |-> Null, RequestId |-> Null]

\* the server's handler app.all('/*'): a request whose Action is Publish and
\* whose TopicArn names a topic publishes the message under a new randomId and
\* is answered 200; split on a TopicArn that is no string throws; every other
\* request is answered 404
ServerRequest(body) ==
  /\ pc = "serving"
  /\ Len(requests) < MaxPublishes
  /\ LET isPublish == body.Action = Str(<<"Publish">>)
         topicArn == body.TopicArn
         throws == isPublish /\ Truthy(topicArn) /\ topicArn.type # "string"
         topicName == IF Truthy(topicArn)
                        THEN Str(RemoveFirst(LastSegment(topicArn.value), stackPrefix))
                        ELSE topicArn
         messageId == randomId(nextId)
         topic == IF isPublish /\ ~throws THEN Find(topicName, topics) ELSE 0
         drawn == IF throws THEN 0 ELSE IF isPublish THEN 2 ELSE 1
         requestId == randomId(nextId + drawn - 1)
         response == IF throws THEN UncaughtResponse
                     ELSE IF topic # 0 THEN PublishResponse(messageId, requestId)
                     ELSE ErrorResponse(requestId)
     IN /\ timers' = IF topic # 0
                       THEN PubSubPublish(timers, topics[topic].name,
                                          [message |-> body.Message,
                                           messageId |-> messageId])
                       ELSE timers
        /\ requests' = Append(requests,
                         [body |-> body,
                          topicName |-> IF isPublish /\ ~throws THEN topicName ELSE Null,
                          messageId |-> IF topic # 0 THEN messageId ELSE Null,
                          status |-> response.status,
                          response |-> response])
        /\ nextId' = nextId + drawn
  /\ UNCHANGED <<functions, provider, iamRoleStatements, custom, resources, topics,
                 queues, funcs, subscriptions, pc, passes, error, pre, declared,
                 resolved, command, listeners, executed, processVars>>

\* a Publish request that is answered once nothing is left to deliver and no
\* handler is running
ServerPublishAfterFanOut(topicArn) ==
  /\ timers = <<>>
  /\ \A p \in 1..Len(processes) : processes[p].status # "running"
  /\ ServerRequest(PublishBody(topicArn))

\* a Publish request for the given TopicArn
ServerPublish(topicArn) == ServerRequest(PublishBody(topicArn))

\* pubsub-js runs the oldest deferred delivery
deliver ==
  /\ timers # <<>>
  /\ \E st \in {Deliver([timers |-> Tail(timers), executed |-> executed,
                          nextId |-> nextId, processes |-> processes],
                         Listening(Head(timers).channel), Head(timers).data)} :
        /\ timers' = st.timers
        /\ executed' = st.executed
        /\ nextId' = st.nextId
        /\ processes' = st.processes
  /\ UNCHANGED <<functions, provider, iamRoleStatements, custom, resources, topics,
                 queues, funcs, subscriptions, pc, passes, error, pre, declared,
                 resolved, command, listeners, requests, offline, cliOptions,
                 options, server>>

\* the plugin as constructed for  serverless pubSub offline
OfflineInit == InitWith(OfflineConfigs, {"pubSub offline"})

OfflineNext ==
  \/ collectPubSubResourcesFromFunctions
  \/ collectPubSubResourcesFromCustomConfig
  \/ startServer
  \/ \E n \in PublishNames : ServerPublish(formatTopicArn([name |-> Str(n)]).value)
  \/ deliver
  \/ \E address \in ResolveNames : resolvePubSubTopic(address)

\* a deferred delivery is a timer of the event loop, which runs every timer
\* that is due
OfflineSpec == OfflineInit /\ [][OfflineNext]_vars /\ WF_vars(deliver)

\* ------------------------------------------------------------ the endpoint
\* the calls of subscribe() on a subscription that is subscribed already
MaxActivations == 1

\* the topics the pubSubTopic variable names in the endpoint's configurations:
\* T2, and a topic whose name starts like the stack prefix
EndpointResolveNames == {T2, stackPrefix \o T1}

\* the requests of other shapes: no TopicArn, an empty one, one sent twice,
\* another Action, an empty form
OtherRequests(topicArn) ==
  { RequestBody(Str(<<"Publish">>), Undefined),
    RequestBody(Str(<<"Publish">>), Str(<<>>)),
    RequestBody(Str(<<"Publish">>), Arr(<<Str(topicArn), Str(topicArn)>>)),
    RequestBody(Str(<<"Subscribe">>), Str(topicArn)),
    RequestBody(Undefined, Undefined) }

\* subscription.subscribe() called for subscription i once more
subscribe(i) ==
  /\ pc = "serving"
  /\ Len(listeners) < Len(subscriptions) + MaxActivations
  /\ listeners' = Append(listeners, [channel |-> OriginOf(subscriptions[i]).name,
                                     subscription |-> i])
  /\ UNCHANGED <<functions, provider, iamRoleStatements, custom, resources, topics,
                 queues, funcs, subscriptions, pc, passes, error, pre, declared,
                 resolved, command, timers, executed, requests, nextId,
                 processVars>>

EndpointInit == InitWith(EndpointConfigs, {"pubSub offline"})

EndpointNext ==
  \/ collectPubSubResourcesFromFunctions
  \/ collectPubSubResourcesFromCustomConfig
  \/ startServer
  \/ \E address \in EndpointResolveNames : resolvePubSubTopic(address)
  \/ \E r \in resolved : ServerPublish(r.value.value)
  \/ \E n \in PublishNames : ServerPublish(formatTopicArn([name |-> Str(n)]).value)
  \/ \E body \in OtherRequests(formatTopicArn([name |-> Str(T1)]).value) :
       ServerRequest(body)
  \/ \E i \in 1..Len(subscriptions) : subscribe(i)
  \/ deliver

EndpointSpec == EndpointInit /\ [][EndpointNext]_vars

\* ------------------------------------------------------------ the handler processes
\* the events the configurations of the invoked handlers declare: F1
\* subscribed to T1, F2 subscribed to T1 through its default queue, or both
ProcessPools ==
  LET direct == [func |-> F1, event |-> PubSubEvent(Str(T1))]
      queued == [func |-> F2,
                 event |-> PubSubEvent(Obj([topic |-> Str(T1), queue |-> Bool(TRUE)]))]
  IN {<<direct>>, <<queued>>, <<direct, queued>>}

ProcessConfigs == {FormConfig(pool) : pool \in ProcessPools}

\* the callback of execFile: the process has ended, with an error or without;
\* the callback writes to the log
execFileCallback(p, err) ==
  /\ p \in 1..Len(processes)
  /\ processes[p].status = "running"
  /\ processes' = [processes EXCEPT ![p].status = IF err THEN "failed" ELSE "exited"]
  /\ UNCHANGED <<functions, provider, iamRoleStatements, custom, resources, topics,
                 queues, funcs, subscriptions, pc, passes, error, pre, declared,
                 resolved, command, serverVars, offline, cliOptions, options,
                 server>>

\* the plugin as constructed for  serverless pubSub offline  with the options
\* of the command line and the offline block of the configuration
ProcessInit == InitOf(ProcessConfigs, {"pubSub offline"}, OfflineBlocks, UserOptions)

ProcessNext ==
  \/ collectPubSubResourcesFromFunctions
  \/ collectPubSubResourcesFromCustomConfig
  \/ startServer
  \/ \E n \in PublishNames : ServerPublish(formatTopicArn([name |-> Str(n)]).value)
  \/ deliver
  \/ \E p \in 1..Len(processes), err \in BOOLEAN : execFileCallback(p, err)

\* a process that was started may never end: nothing is assumed of it
ProcessSpec == ProcessInit /\ [][ProcessNext]_vars

\* ------------------------------------------------------------ properties
\* the pubSub events of the declared configuration, function by function in
\* declaration order
DeclaredOf(f) ==
  LET evs == SelectSeq(declared.functions[f].events,
                       LAMBDA e : "pubSub" \in DOMAIN e.fields)
  IN [i \in 1..Len(evs) |-> [func |-> f, pubSub |-> evs[i].fields.pubSub]]
DeclaredEvents == DeclaredOf(F1) \o DeclaredOf(F2) \o DeclaredOf(F3)

\* a hook has run to its end and none is running
PassDone == pc = "ready" /\ passes >= 1
\* the hook's collection from the functions has run without throwing
Collected ==
  \/ pc \in {"collectCustom", "adjust", "events", "resources", "publish", "policy"}
  \/ passes >= 1
  \/ pc = "failed" /\ error.message # "No topic could be identified"

\* the logical id of the resource a topic subscription is written to
SubscriptionId(sub) ==
  IF sub.kind = "TopicToFunc"
    THEN getLambdaSnsSubscriptionLogicalId(funcs[sub.subscriber].name.value,
                                           topics[sub.origin].name.value)
    ELSE getQueueSubscriptionLogicalId(topics[sub.origin].name.value,
                                       queues[sub.subscriber].name.value)

\* C1: a topic name that some descriptor declares with an external arn has,
\* after the pass, no AWS::SNS::Topic resource; its one Topic entity carries
\* the arn and the custom configuration; its subscription resources, sns
\* events and sns:Publish entry use the literal arn -- whatever referenced the
\* name first.
C1_ExternalTopicUsesArn ==
  PassDone =>
    \A i \in 1..Len(DeclaredEvents) :
      LET d == DeclaredEvents[i].pubSub
          arn == topicExternalArn(d)
          name == pullTopicNameFromEvent(d)
          statement == iamRoleStatements[Len(iamRoleStatements)]
      IN (Truthy(arn) /\ Truthy(name)) =>
           /\ Lookup(resources, getTopicLogicalId(name.value)) = Undefined
           /\ \A t \in 1..Len(topics) :
                topics[t].name = name =>
                  /\ topics[t].arn = arn
                  /\ topics[t].vendorConfig
                       = Or(Lookup(declared.custom.topics, name.value), Obj(Empty))
                  /\ statement.fields.Resource.items[t] = arn
           /\ \A s \in 1..Len(subscriptions) :
                LET sub == subscriptions[s]
                IN (sub.kind # "QueueToFunc" /\ topics[sub.origin].name = name) =>
                     /\ Lookup(resources, SubscriptionId(sub)).Properties.TopicArn = arn
                     /\ sub.kind = "TopicToFunc" =>
                          \E e \in 1..Len(functions[funcs[sub.subscriber].name.value].events) :
                            functions[funcs[sub.subscriber].name.value].events[e]
                              = Obj([sns |-> Obj([arn |-> arn])])

NamesUnique(collection) ==
  \A i, j \in 1..Len(collection) :
    collection[i].name = collection[j].name => i = j

\* an entity, once in its collection, stays at its place with its name and the
\* configuration attached at creation
Kept(old, new) ==
  /\ Len(new) >= Len(old)
  /\ \A i \in 1..Len(old) : new[i] = old[i]
KeptQueues(old, new) ==
  /\ Len(new) >= Len(old)
  /\ \A i \in 1..Len(old) :
       /\ new[i].name = old[i].name
       /\ new[i].aliased = old[i].aliased
       /\ pc # "adjust" => new[i].own = old[i].own

\* C2: after any sequence of getTopic, getQueue and getFunc calls the topics,
\* queues and funcs collections hold at most one entity per name, and a call
\* for an existing name leaves that entity, with the configuration attached to
\* it, where it is.
C2_OneEntityPerName ==
  /\ [](NamesUnique(topics) /\ NamesUnique(queues) /\ NamesUnique(funcs))
  /\ [][Kept(topics, topics') /\ Kept(funcs, funcs') /\ KeptQueues(queues, queues')]_vars

\* the second collection has asked again for every name of the first
C2_Witness ==
  /\ pc = "adjust" /\ passes = 1
  /\ Len(topics) >= 2 /\ Len(queues) >= 2 /\ Len(funcs) = 3

\* the queue of a descriptor is an object that has no name
QueueObjectWithoutName(pubSub) ==
  /\ Get(pubSub, "queue").type = "object"
  /\ ~("name" \in DOMAIN Get(pubSub, "queue").fields)

\* the model holds topic -> queue -> function through the queue named queueName
ThroughQueue(topicName, queueName, funcName) ==
  \E q \in 1..Len(queues) :
    /\ queues[q].name = queueName
    /\ \E s \in 1..Len(subscriptions) :
         /\ subscriptions[s].kind = "QueueToFunc"
         /\ subscriptions[s].origin = q
         /\ funcs[subscriptions[s].subscriber].name = Str(funcName)
    /\ \E s \in 1..Len(subscriptions) :
         /\ subscriptions[s].kind = "TopicToQueue"
         /\ subscriptions[s].subscriber = q
         /\ topics[subscriptions[s].origin].name = topicName

\* C3: a descriptor whose queue is an object without a name is collected as
\* topic -> queue -> function through the queue '<function>-queue', as for
\* queue: true.
C3_UnnamedQueueObjectDefaults ==
  Collected =>
    \A i \in 1..Len(DeclaredEvents) :
      LET d == DeclaredEvents[i].pubSub
          f == DeclaredEvents[i].func
      IN QueueObjectWithoutName(d) =>
           ThroughQueue(pullTopicNameFromEvent(d), Str(f \o <<"-", "queue">>), f)

\* the function declares queue: true on some descriptor
UsesShorthand(f) ==
  \E i \in 1..Len(DeclaredEvents) :
    /\ DeclaredEvents[i].func = f
    /\ Get(DeclaredEvents[i].pubSub, "queue") = Bool(TRUE)

\* the subscription collected for a queue: true descriptor of f goes through
\* the one queue named '<f>-queue'
ShorthandQueue(f) ==
  \A i \in 1..Len(DeclaredEvents) :
    (DeclaredEvents[i].func = f /\ Get(DeclaredEvents[i].pubSub, "queue") = Bool(TRUE)) =>
      /\ ThroughQueue(pullTopicNameFromEvent(DeclaredEvents[i].pubSub),
                      Str(f \o <<"-", "queue">>), f)
      /\ Cardinality({q \in 1..Len(queues) : queues[q].name = Str(f \o <<"-", "queue">>)}) = 1

\* C4: functions F1 # F2 that each use queue: true get two distinct Queue
\* entities, named exactly '<F1>-queue' and '<F2>-queue'.
C4_ShorthandQueuesDistinct ==
  Collected =>
    \A f, g \in {F1, F2, F3} :
      (UsesShorthand(f) /\ UsesShorthand(g) /\ f # g) =>
        /\ ShorthandQueue(f)
        /\ ShorthandQueue(g)
        /\ Find(Str(f \o <<"-", "queue">>), queues) # Find(Str(g \o <<"-", "queue">>), queues)

C4_Witness ==
  /\ pc = "collectCustom"
  /\ UsesShorthand(F1) /\ UsesShorthand(F2)
  /\ Find(Str(<<"f1", "-", "queue">>), queues) = 1
  /\ Find(Str(<<"f2", "-", "queue">>), queues) = 2

\* the subscriptions a list of declared events asks for, by entity name
RECURSIVE ExpectedSubscriptions(_)
ExpectedSubscriptions(events) ==
  IF events = <<>> THEN <<>>
  ELSE LET d == Head(events).pubSub
           f == Str(Head(events).func)
           t == pullTopicNameFromEvent(d)
           q == pullQueueNameFromEvent(d, [name |-> f])
       IN (IF Truthy(q)
             THEN << [kind |-> "QueueToFunc", origin |-> q, subscriber |-> f],
                     [kind |-> "TopicToQueue", origin |-> t, subscriber |-> q] >>
             ELSE << [kind |-> "TopicToFunc", origin |-> t, subscriber |-> f] >>)
          \o ExpectedSubscriptions(Tail(events))

\* the subscriptions the running hook has appended, by entity name
AppendedSubscriptions ==
  [k \in 1..(Len(subscriptions) - Len(pre.subscriptions)) |->
     LET sub == subscriptions[Len(pre.subscriptions) + k]
     IN [kind |-> sub.kind,
         origin |-> IF sub.kind = "QueueToFunc" THEN queues[sub.origin].name
                    ELSE topics[sub.origin].name,
         subscriber |-> IF sub.kind = "TopicToQueue" THEN queues[sub.subscriber].name
                        ELSE funcs[sub.subscriber].name]]

Names(collection) == [i \in 1..Len(collection) |-> collection[i].name]

\* a list without its repetitions, each element at its first place
RECURSIVE FirstReferences(_, _)
FirstReferences(names, acc) ==
  IF names = <<>> THEN acc
  ELSE IF \E i \in 1..Len(acc) : acc[i] = Head(names)
    THEN FirstReferences(Tail(names), acc)
    ELSE FirstReferences(Tail(names), Append(acc, Head(names)))

TopicReferences(events) ==
  [i \in 1..Len(events) |-> pullTopicNameFromEvent(events[i].pubSub)]
QueueReferences(events) ==
  LET queued == SelectSeq(events, LAMBDA e :
                  Truthy(pullQueueNameFromEvent(e.pubSub, [name |-> Str(e.func)])))
  IN [i \in 1..Len(queued) |->
        pullQueueNameFromEvent(queued[i].pubSub, [name |-> Str(queued[i].func)])]

QueuedEvents(events) ==
  Len(SelectSeq(events, LAMBDA e :
        Truthy(pullQueueNameFromEvent(e.pubSub, [name |-> Str(e.func)]))))

\* what collecting the listed events must have added to the model the hook
\* started from
CollectedExactly(events) ==
  /\ AppendedSubscriptions = ExpectedSubscriptions(events)
  /\ Len(subscriptions) - Len(pre.subscriptions)
       = 2 * QueuedEvents(events) + (Len(events) - QueuedEvents(events))
  /\ Names(topics) = FirstReferences(TopicReferences(events), Names(pre.topics))
  /\ Names(queues) = FirstReferences(QueueReferences(events), Names(pre.queues))
  /\ \A k \in (Len(pre.subscriptions) + 1)..Len(subscriptions) :
       subscriptions[k].kind = "QueueToFunc" =>
         /\ subscriptions[k + 1].kind = "TopicToQueue"
         /\ subscriptions[k + 1].subscriber = subscriptions[k].origin
  /\ \A k, l \in 1..Len(subscriptions) :
       ( /\ subscriptions[k].kind # "QueueToFunc"
         /\ subscriptions[l].kind # "QueueToFunc"
         /\ topics[subscriptions[k].origin].name = topics[subscriptions[l].origin].name )
         => subscriptions[k].origin = subscriptions[l].origin

\* C5: collection appends, for each pubSub event in order, a QueueToFunc and a
\* TopicToQueue subscription through one Queue entity when a queue name is
\* derived and one TopicToFunc subscription otherwise (2 x queued + direct in
\* all); topics and queues stand in order of first reference; the three topic
\* forms of one name give one Topic entity.
C5_SubscriptionsPerEvent ==
  pc = "collectCustom" => CollectedExactly(DeclaredEvents)

C5_Witness ==
  /\ pc = "collectCustom"
  /\ passes = 1
  /\ Len(subscriptions) - Len(pre.subscriptions) = 3
  /\ Len(topics) = 2

\* ---- visibility timeouts
\* the names of the queues that have a QueueToFunc subscription, and the
\* functions subscribed to one
QueuesWithSubscribers ==
  {queues[subscriptions[s].origin].name.value :
     s \in {k \in 1..Len(subscriptions) : subscriptions[k].kind = "QueueToFunc"}}
Subscribers(n) ==
  {funcs[subscriptions[s].subscriber].name.value :
     s \in {k \in 1..Len(subscriptions) :
              /\ subscriptions[k].kind = "QueueToFunc"
              /\ queues[subscriptions[k].origin].name.value = n}}

\* the function's timeout, else the provider's, else 6
TimeoutOf(f) ==
  IF declared.functions[f].timeout # Undefined THEN declared.functions[f].timeout.num
  ELSE IF provider.timeout # Undefined THEN provider.timeout.num
  ELSE 6
MaxTimeout(n) ==
  CHOOSE m \in {TimeoutOf(f) : f \in Subscribers(n)} :
    \A f \in Subscribers(n) : TimeoutOf(f) <= m

\* the VisibilityTimeout declared in the queue's custom block and in defaults.queues
OwnVisibility(n) == Get(Lookup(declared.custom.queues, n), "VisibilityTimeout")
DefaultVisibility == Get(Get(declared.custom.defaults, "queues"), "VisibilityTimeout")
Configured(n) == OwnVisibility(n) # Undefined \/ DefaultVisibility # Undefined
ConfiguredValue(n) ==
  IF OwnVisibility(n) # Undefined THEN OwnVisibility(n).num ELSE DefaultVisibility.num
\* the same, a zero passed over (0 when neither holds a non-zero value)
NonZeroConfiguredValue(n) ==
  IF OwnVisibility(n) # Undefined /\ OwnVisibility(n).num # 0
    THEN OwnVisibility(n).num
  ELSE IF DefaultVisibility # Undefined THEN DefaultVisibility.num
  ELSE 0

VisibilityMessage == "Specified visibility timeout is less than function timeout"
\* the first hook's adjustQueueVisibilityTimeout has run: to its end, or to its throw
FirstAdjustRan ==
  \/ passes = 0 /\ pc \in {"events", "resources", "publish", "policy"}
  \/ passes = 1 /\ pc = "ready"
  \/ pc = "failed" /\ error.message = VisibilityMessage

QueueOf(n) == queues[Find(Str(n), queues)]

\* C6 as stated: a configured visibility timeout below the maximum function
\* timeout plus 5 makes resolution fail with an error naming the queue, the
\* configured value and the maximum plus 5.
C6_FailsBelowMaxPlusFive ==
  FirstAdjustRan =>
    \A n \in QueuesWithSubscribers :
      (Configured(n) /\ ConfiguredValue(n) < MaxTimeout(n) + 5) =>
        /\ pc = "failed"
        /\ \E b \in QueuesWithSubscribers :
             error = [message |-> VisibilityMessage, queue |-> Str(b),
                      configuredTimeout |-> ConfiguredValue(b),
                      maxFunctionTimeout |-> MaxTimeout(b) + 5]

\* C6, amended: a configured (non-zero) visibility timeout below the maximum
\* function timeout M makes resolution fail with an error naming the queue, the
\* configured value and M.
C6_FailsBelowMax ==
  FirstAdjustRan =>
    \A n \in QueuesWithSubscribers :
      (NonZeroConfiguredValue(n) # 0 /\ NonZeroConfiguredValue(n) < MaxTimeout(n)) =>
        /\ pc = "failed"
        /\ \E b \in QueuesWithSubscribers :
             /\ NonZeroConfiguredValue(b) # 0
             /\ NonZeroConfiguredValue(b) < MaxTimeout(b)
             /\ error = [message |-> VisibilityMessage, queue |-> Str(b),
                         configuredTimeout |-> NonZeroConfiguredValue(b),
                         maxFunctionTimeout |-> MaxTimeout(b)]

\* timeouts 10, 30 and the default 6 on one queue configured with 20
C6_Witness ==
  /\ pc = "failed"
  /\ Subscribers(Q1) = {F1, F2, F3}
  /\ provider.timeout = Undefined
  /\ OwnVisibility(Q1) = Num(20)
  /\ error = [message |-> VisibilityMessage, queue |-> Str(Q1),
              configuredTimeout |-> 20, maxFunctionTimeout |-> 30]

\* C7: after the pass a queue with QueueToFunc subscriptions and no configured
\* VisibilityTimeout carries, in its configuration and in its AWS::SQS::Queue
\* resource, 5 + the maximum over its subscribing functions of (the function's
\* timeout, else the provider's, else 6); a queue without such a subscription
\* keeps the configuration it was declared with.
C7_ComputedVisibilityTimeout ==
  PassDone =>
    \A q \in 1..Len(queues) :
      LET n == queues[q].name.value
          config == QueueVendorConfig(queues[q], custom)
      IN IF n \in QueuesWithSubscribers
           THEN ~Configured(n) =>
                  /\ Get(config, "VisibilityTimeout") = Num(5 + MaxTimeout(n))
                  /\ Lookup(resources, getActualQueueLogicalId(n)).Properties.VisibilityTimeout
                       = Num(5 + MaxTimeout(n))
           ELSE config = Or(Lookup(declared.custom.queues, n), Obj(Empty))

\* timeouts 10, 30 and the default 6 on one unconfigured queue: 35
C7_Witness ==
  /\ PassDone
  /\ Subscribers(Q1) = {F1, F2, F3}
  /\ provider.timeout = Undefined
  /\ ~Configured(Q1)
  /\ Lookup(resources, <<"SQSQueue", "q1">>).Properties.VisibilityTimeout = Num(35)

\* C8: for a queue with QueueToFunc subscriptions whose visibility timeout is
\* configured, the adjustment throws exactly when the configured value is below
\* the maximum timeout of the subscribing functions, and otherwise leaves the
\* configured value as it is.
C8_ThrowsIffBelowMax ==
  FirstAdjustRan =>
    /\ pc = "failed" <=>
         \E n \in QueuesWithSubscribers :
           Configured(n) /\ ConfiguredValue(n) < MaxTimeout(n)
    /\ pc # "failed" =>
         \A n \in QueuesWithSubscribers :
           Configured(n) =>
             QueueVendorConfig(QueueOf(n), custom)
               = Or(Lookup(declared.custom.queues, n), Obj(Empty))

\* ---- configuration errors
NoTopicMessage == "No topic could be identified"
BadEvents ==
  {i \in 1..Len(DeclaredEvents) :
     ~Truthy(pullTopicNameFromEvent(DeclaredEvents[i].pubSub))}
FirstBadEvent == CHOOSE i \in BadEvents : \A j \in BadEvents : i <= j
\* the functions up to and including f, in declaration order
FuncsThrough(f) ==
  CASE f = F1 -> <<Str(F1)>>
    [] f = F2 -> <<Str(F1), Str(F2)>>
    [] OTHER -> <<Str(F1), Str(F2), Str(F3)>>

\* C9: when a function has a pubSub event from which no topic name can be
\* extracted, collection throws an error naming that function, and throws at
\* that event: the model holds what the events before it gave, nothing of a
\* later event or function.
C9_ThrowsAtFirstUnnamedTopic ==
  /\ (BadEvents # {} /\ (pc # "ready" \/ passes >= 1)) =>
       (pc = "failed" /\ error.message = NoTopicMessage)
  /\ (pc = "failed" /\ error.message = NoTopicMessage) =>
       /\ BadEvents # {}
       /\ error = [message |-> NoTopicMessage,
                   func |-> DeclaredEvents[FirstBadEvent].func]
       /\ CollectedExactly(SubSeq(DeclaredEvents, 1, FirstBadEvent - 1))
       /\ Names(funcs) = FuncsThrough(DeclaredEvents[FirstBadEvent].func)

\* the unnamed topic is a function's first event and a later event follows it
C9_Witness ==
  /\ pc = "failed"
  /\ error.message = NoTopicMessage
  /\ FirstBadEvent = 1
  /\ Len(DeclaredEvents) = 2
  /\ DeclaredEvents[2].func = DeclaredEvents[1].func
  /\ 2 \notin BadEvents

\* C10: when the hook throws a configuration error, service.resources.Resources,
\* every function's events list and provider.iamRoleStatements are as they were
\* when the hook started.
C10_NothingWrittenOnError ==
  pc = "failed" =>
    /\ resources = pre.resources
    /\ \A f \in DOMAIN functions : functions[f].events = pre.functions[f].events
    /\ iamRoleStatements = pre.iamRoleStatements

\* the adjustment threw on a later queue, after the model was built
C10_Witness ==
  /\ pc = "failed"
  /\ error.message = VisibilityMessage
  /\ Len(queues) = 2
  /\ Len(subscriptions) >= 4
  /\ error.queue = queues[2].name


\* ---- the pubSubTopic variable source
\* the Fn::Join address of a locally managed topic
JoinAddress(n) ==
  Obj("Fn::Join" :>
    Arr(<<Str(<<":">>),
          Arr(<<Str(<<"arn">>), Obj([Ref |-> Str(<<"AWS::Partition">>)]), Str(<<"sns">>),
                Obj([Ref |-> Str(<<"AWS::Region">>)]), Obj([Ref |-> Str(<<"AWS::AccountId">>)]),
                Str(ServiceName \o <<"-">> \o Stage \o <<"-">> \o n)>>)>>))

\* the names the variable source had resolved when the last hook started
ResolvedBeforePass == {r.address : r \in pre.resolved}
\* the Resource entries of the statement the last hook appended
PublishEntries ==
  LET items == iamRoleStatements[Len(iamRoleStatements)].fields.Resource.items
  IN {items[i] : i \in 1..Len(items)}
HasTopicResource(n) ==
  /\ Lookup(resources, <<"SNSTopic">> \o n) # Undefined
  /\ Lookup(resources, <<"SNSTopic">> \o n).Type = "AWS::SNS::Topic"
  /\ Lookup(resources, <<"SNSTopic">> \o n).Properties.TopicName
       = Str(ServiceName \o <<"-">> \o Stage \o <<"-">> \o n)
\* the arn the Topic entity of the name carries (Null for a locally managed one)
ArnOf(n) == topics[Find(Str(n), topics)].arn
Subscribed(n) ==
  \E s \in 1..Len(subscriptions) :
    subscriptions[s].kind # "QueueToFunc" /\ topics[subscriptions[s].origin].name = Str(n)

Carries(logicalId, type, block) ==
  /\ Lookup(resources, logicalId) # Undefined
  /\ Lookup(resources, logicalId).Type = type
  /\ \A k \in DOMAIN block.fields :
       /\ k \in DOMAIN Lookup(resources, logicalId).Properties
       /\ Lookup(resources, logicalId).Properties[k] = block.fields[k]

\* C12: after the pass every topic name keyed in custom.pubSub.topics has an
\* AWS::SNS::Topic resource and every queue name keyed in custom.pubSub.queues
\* an AWS::SQS::Queue resource, each carrying the properties of its custom
\* block, whether or not a subscription references it.
C12_CustomEntitiesHaveResources ==
  PassDone =>
    /\ \A i \in 1..Len(declared.custom.topics) :
         Carries(<<"SNSTopic">> \o declared.custom.topics[i].key, "AWS::SNS::Topic",
                 declared.custom.topics[i].value)
    /\ \A i \in 1..Len(declared.custom.queues) :
         Carries(<<"SQSQueue">> \o declared.custom.queues[i].key, "AWS::SQS::Queue",
                 declared.custom.queues[i].value)


\* ---- merge precedence
\* the per-key merge of three sources, a later one overriding an earlier one
Layered(low, mid, high) ==
  [k \in (DOMAIN low) \cup (DOMAIN mid) \cup (DOMAIN high) |->
     IF k \in DOMAIN high THEN high[k]
     ELSE IF k \in DOMAIN mid THEN mid[k] ELSE low[k]]

\* the fields of a block, none for a block that is not there
BlockOf(v) == IF v.type = "object" THEN v.fields ELSE <<>>
DefaultsBlock(kind) == BlockOf(Get(custom.defaults, kind))
\* a name as a logical id holds it
Dashless(n) == SelectSeq(n, LAMBDA c : c # "-")
Namespaced(n) == Str(ServiceName \o <<"-">> \o Stage \o <<"-">> \o n)
ArnAttribute(logicalId) == Obj("Fn::GetAtt" :> Arr(<<Str(logicalId), Str(<<"Arn">>)>>))

\* the properties the plugin computes for a topic, a queue, a topic
\* subscription and an event source mapping
ComputedTopic(t) == [TopicName |-> Namespaced(topics[t].name.value)]
ComputedQueue(q) == [QueueName |-> Namespaced(queues[q].name.value)]
ComputedSNSSubscription(sub) ==
  LET t == topics[sub.origin].name.value
  IN [TopicArn |-> IF topics[sub.origin].arn # Null THEN topics[sub.origin].arn
                   ELSE Obj([Ref |-> Str(<<"SNSTopic">> \o t)]),
      Protocol |-> IF sub.kind = "TopicToFunc" THEN Str(<<"lambda">>) ELSE Str(<<"sqs">>),
      Endpoint |-> IF sub.kind = "TopicToFunc"
                     THEN ArnAttribute(funcs[sub.subscriber].name.value \o <<"LogicalID">>)
                     ELSE ArnAttribute(<<"SQSQueue">> \o Dashless(queues[sub.subscriber].name.value))]
ComputedEventSourceMapping(sub) ==
  [EventSourceArn |-> ArnAttribute(<<"SQSQueue">> \o Dashless(queues[sub.origin].name.value)),
   FunctionName |-> ArnAttribute(funcs[sub.subscriber].name.value \o <<"LogicalID">>)]

ResourceId(sub) ==
  IF sub.kind = "QueueToFunc"
    THEN <<"SQSQueue">> \o Dashless(queues[sub.origin].name.value) \o <<"To">>
           \o funcs[sub.subscriber].name.value
    ELSE SubscriptionId(sub)
\* the subscriptions whose resource is the one emitted under its identifier
Emitted ==
  {s \in 1..Len(subscriptions) :
     \A l \in (s + 1)..Len(subscriptions) :
       ResourceId(subscriptions[l]) # ResourceId(subscriptions[s])}

\* every emitted resource's properties are Merge(service defaults, computed,
\* entity block) for the given order of the first two
MergedBy(Merge(_, _, _)) ==
  /\ \A t \in 1..Len(topics) :
       Lookup(resources, <<"SNSTopic">> \o topics[t].name.value) # Undefined =>
         Lookup(resources, <<"SNSTopic">> \o topics[t].name.value).Properties
           = Merge(DefaultsBlock("topics"), ComputedTopic(t),
                   BlockOf(topics[t].vendorConfig))
  /\ \A q \in 1..Len(queues) :
       Lookup(resources, <<"SQSQueue">> \o Dashless(queues[q].name.value)).Properties
         = Merge(DefaultsBlock("queues"), ComputedQueue(q),
                 BlockOf(QueueVendorConfig(queues[q], custom)))
  /\ \A s \in Emitted :
       Lookup(resources, ResourceId(subscriptions[s])).Properties
         = IF subscriptions[s].kind = "QueueToFunc"
             THEN Merge(DefaultsBlock("queueSubscriptions"),
                        ComputedEventSourceMapping(subscriptions[s]),
                        BlockOf(subscriptions[s].vendorConfig))
             ELSE Merge(DefaultsBlock("topicSubscriptions"),
                        ComputedSNSSubscription(subscriptions[s]),
                        BlockOf(subscriptions[s].vendorConfig))

ComputedLowest(defaults, computed, entity) == Layered(computed, defaults, entity)
DefaultsLowest(defaults, computed, entity) == Layered(defaults, computed, entity)

\* C13 as stated: every property of every emitted topic, queue, subscription
\* and event-source-mapping resource comes from the highest source that sets
\* it, in the order computed properties < service-wide defaults for the kind <
\* entity-specific custom block or inline subscription block.
C13_ComputedBelowDefaults == PassDone => MergedBy(ComputedLowest)

\* C13, amended: every property of every emitted topic, queue, subscription and
\* event-source-mapping resource comes from the highest source that sets it, in
\* the order service-wide defaults for the kind < computed properties <
\* entity-specific custom block or inline subscription block, merged per key.
C13_DefaultsBelowComputed == PassDone => MergedBy(DefaultsLowest)

\* a topic whose three sources all set a key another source sets, and a
\* subscription whose inline block overrides the defaults
C13_Witness ==
  /\ PassDone
  /\ "TopicName" \in DOMAIN DefaultsBlock("topics")
  /\ Lookup(resources, <<"SNSTopic">> \o T1) # Undefined
  /\ Lookup(resources, <<"SNSTopic">> \o T1).Properties.TopicName = Namespaced(T1)
  /\ Lookup(resources, <<"SNSTopic">> \o T1).Properties.DisplayName
       = Str(<<"FooDefinitelyHappened">>)
  /\ \E s \in Emitted :
       /\ subscriptions[s].kind = "QueueToFunc"
       /\ Lookup(resources, ResourceId(subscriptions[s])).Properties.BatchSize = Num(1)


\* ---- the queue access policy
Policy == Lookup(resources, <<"SNSToSQSPolicy">>)
HasTopicToQueue ==
  \E k \in 1..Len(subscriptions) : subscriptions[k].kind = "TopicToQueue"

\* C14 as stated: the SNSToSQSPolicy resource exists only when a queue with an
\* incoming Topic->Queue subscription exists; queues and topics without such a
\* subscription give no policy.
C14_PolicyOnlyForSubscribedQueues ==
  PassDone => (Policy # Undefined => HasTopicToQueue)

\* C14, amended: the last step of a pass leaves an SNSToSQSPolicy resource
\* exactly when the model holds at least one queue and at least one topic (or
\* an earlier pass left one), whether or not a Topic->Queue subscription links
\* a topic to a queue.
C14_PolicyIffQueuesAndTopics ==
  [][pc = "policy" =>
       (Lookup(resources', <<"SNSToSQSPolicy">>) # Undefined
          <=> \/ Len(queues) > 0 /\ Len(topics) > 0
              \/ Policy # Undefined)]_vars

\* queues and topics of the custom block only, nothing subscribed: a policy
C14_Witness ==
  /\ PassDone
  /\ Len(queues) > 0
  /\ Len(topics) > 0
  /\ subscriptions = <<>>
  /\ Policy # Undefined
  /\ Policy.Type = "AWS::SQS::QueuePolicy"


\* the single statement of a policy, FALSE-proof: the Statement list
Statements(policy) == policy.Properties.PolicyDocument.fields.Statement.items
SourceArns(policy) ==
  Statements(policy)[1].fields.Condition.fields.ArnEquals.fields["aws:SourceArn"].items

\* the shape C15 asks of a policy, for the queues and topics of the model
PolicyCovers(policy, qs, tps) ==
  /\ policy.Type = "AWS::SQS::QueuePolicy"
  /\ Len(Statements(policy)) = 1
  /\ Statements(policy)[1].fields.Effect = Str(<<"Allow">>)
  /\ Statements(policy)[1].fields.Action = Str(<<"sqs", ":", "SendMessage">>)
  /\ policy.Properties.Queues.items
       = [i \in 1..Len(qs) |-> Obj([Ref |-> Str(<<"SQSQueue">> \o Dashless(qs[i].name.value))])]
  /\ \A i, j \in 1..Len(qs) : qs[i].name = qs[j].name => i = j
  /\ SourceArns(policy)
       = [i \in 1..Len(tps) |->
            IF tps[i].arn # Null THEN tps[i].arn
            ELSE Obj([Ref |-> Str(<<"SNSTopic">> \o Dashless(tps[i].name.value))])]
  /\ \A i, j \in 1..Len(tps) : tps[i].name = tps[j].name => i = j

ExpectedPublishStatement(tps) ==
  Obj([Effect |-> Str(<<"Allow">>),
       Action |-> Arr(<<Str(<<"sns", ":", "Publish">>)>>),
       Resource |-> Arr([i \in 1..Len(tps) |->
                           IF tps[i].arn # Null THEN tps[i].arn
                           ELSE JoinAddress(tps[i].name.value)])])

\* C16: each pass appends exactly one Allow sns:Publish statement to
\* provider.iamRoleStatements and leaves every statement that was there in
\* place; the statement's Resource list has one entry per topic of the model,
\* in the model's (first-reference) order: the Fn::Join address of a locally
\* managed topic, the literal arn of an external one.
C16_OnePublishStatementPerPass ==
  /\ [](PassDone =>
          /\ Len(iamRoleStatements) = Len(pre.iamRoleStatements) + 1
          /\ SubSeq(iamRoleStatements, 1, Len(pre.iamRoleStatements))
               = pre.iamRoleStatements)
  /\ [][IF pc = "publish"
          THEN iamRoleStatements'
                 = Append(iamRoleStatements, ExpectedPublishStatement(topics))
          ELSE iamRoleStatements' = iamRoleStatements]_vars

\* a statement that was declared stays first, and one statement over the
\* single topic follows it
C16_Witness ==
  /\ PassDone
  /\ passes = 1
  /\ Len(topics) = 1
  /\ iamRoleStatements = <<ExistingStatement, ExpectedPublishStatement(topics)>>


\* ---- the events of the subscribing functions
\* the event C17 asks for a subscription of a function
ExpectedEvent(sub) ==
  IF sub.kind = "QueueToFunc"
    THEN Obj([sqs |-> Obj([arn |-> ArnAttribute(<<"SQSQueue">>
                                      \o Dashless(queues[sub.origin].name.value))])])
    ELSE IF topics[sub.origin].arn # Null
      THEN Obj([sns |-> Obj([arn |-> topics[sub.origin].arn])])
      ELSE Obj([sns |-> Obj([arn |-> JoinAddress(topics[sub.origin].name.value),
                             topicName |-> Namespaced(topics[sub.origin].name.value)])])

\* the Topic->Function and Queue->Function subscriptions of a function, in order
SubscriptionsTo(f) ==
  SelectSeq(subscriptions,
            LAMBDA sub : sub.kind # "TopicToQueue" /\ funcs[sub.subscriber].name = Str(f))
ExpectedEvents(f) ==
  [i \in 1..Len(SubscriptionsTo(f)) |-> ExpectedEvent(SubscriptionsTo(f)[i])]

\* C17: generateAdditionalEvents appends to each subscribing function's events
\* list one sns event per Topic->Function subscription and one sqs event per
\* Queue->Function subscription, after the events already in the list, and
\* nothing for a Topic->Queue subscription; no other step, collection included,
\* changes a function declaration.
C17_EventsAppended ==
  [][IF pc = "events"
       THEN \A f \in DOMAIN functions :
              /\ functions'[f].events = functions[f].events \o ExpectedEvents(f)
              /\ functions'[f].timeout = functions[f].timeout
       ELSE functions' = functions]_vars

\* a function that declared an http event and a queued subscription has them
\* in place, followed by the one sqs event
C17_Witness ==
  /\ pc = "resources"
  /\ passes = 0
  /\ HasTopicToQueue
  /\ \E f \in DOMAIN functions :
       /\ Len(declared.functions[f].events) = 2
       /\ declared.functions[f].events[1] = HttpEvent
       /\ functions[f].events
            = declared.functions[f].events \o <<ExpectedEvent(subscriptions[1])>>
       /\ subscriptions[1].kind = "QueueToFunc"


\* ---- running the pass again
\* a topic of the model when the running (or last) hook started that no pass
\* had seen: without arn and without resource, so created by the variable
\* source since the pass before
CreatedSincePass ==
  \E t \in 1..Len(pre.topics) :
    /\ pre.topics[t].arn = Null
    /\ Lookup(pre.resources, <<"SNSTopic">> \o Dashless(pre.topics[t].name.value)) = Undefined

\* C18: a second run of the pass on the same instance, the configuration
\* unchanged (no topic added between the runs), leaves
\* service.resources.Resources as the first run left it: same identifiers in
\* the same order, same properties, no identifier twice.
C18_SecondPassKeepsResources ==
  (PassDone /\ passes = 2 /\ ~CreatedSincePass) =>
    /\ resources = pre.resources
    /\ \A i, j \in 1..Len(resources) : resources[i].key = resources[j].key => i = j

\* a second run over topics, queues, subscriptions and the policy
C18_Witness ==
  /\ PassDone
  /\ passes = 2
  /\ ~CreatedSincePass
  /\ Len(resources) >= 6
  /\ Policy # Undefined
  /\ \E k \in 1..Len(subscriptions) : subscriptions[k].kind = "TopicToFunc"
  /\ \E k \in 1..Len(subscriptions) : subscriptions[k].kind = "QueueToFunc"


\* ---- what the variable source returns
\* the literal address of local simulation
LocalAddress(n) ==
  Str(<<"arn", ":", "aws", ":", "sns", ":", "us", "-", "east", "-", "1", ":",
        "1234567890123", ":">> \o ServiceName \o <<"-">> \o Stage \o <<"-">> \o n)
LocalSimulation == command \in {"invoke local", "pubSub offline"}

\* C19: for every name N the pubSubTopic variable source has resolved, the
\* model holds exactly one Topic N and every value returned for N is, in normal
\* mode, the Fn::Join address ending in <service>-<stage>-N and, in local
\* simulation, the literal arn:aws:sns:us-east-1:1234567890123:<service>-<stage>-N
\* (so repeated resolution returned one value).
C19_VariableSourceAddress ==
  \A r \in resolved :
    /\ r.value = IF LocalSimulation THEN LocalAddress(r.address)
                 ELSE JoinAddress(r.address)
    /\ Cardinality({t \in 1..Len(topics) : topics[t].name = Str(r.address)}) = 1

\* local simulation: both names resolved, one Topic each, the literal address
C19_Witness ==
  /\ command = "invoke local"
  /\ resolved = {[address |-> T1, value |-> LocalAddress(T1)],
                 [address |-> T2, value |-> LocalAddress(T2)]}
  /\ Len(topics) = 2

\* ------------------------------------------------------------ C20
\* the r-th request the server got was answered 200: its message was published
Accepted(r) == Len(requests) >= r /\ requests[r].status = 200

\* the subscriptions whose origin is the topic named n
SubscriptionsOf(n) ==
  {i \in 1..Len(subscriptions) :
     /\ subscriptions[i].kind \in {"TopicToFunc", "TopicToQueue"}
     /\ topics[subscriptions[i].origin].name = Str(n)}

\* note is the notification of the message published to n under messageId
IsNotification(note, n, messageId) ==
  /\ note.type = "object"
  /\ note.fields.Type = Str(<<"Notification">>)
  /\ note.fields.MessageId = messageId
  /\ note.fields.Message = Message
  /\ LastSegment(note.fields.TopicArn.value) = n

\* data is the envelope a subscription of the given kind hands its subscriber
\* for that message: the JSON text of an SNS Records event for a function, of
\* the bare notification for a queue
IsEnvelope(kind, data, n, messageId) ==
  /\ "json" \in DOMAIN data
  /\ IF kind = "TopicToFunc"
       THEN /\ DOMAIN data.json.fields = {"Records"}
            /\ Len(data.json.fields.Records.items) = 1
            /\ data.json.fields.Records.items[1].fields.EventSource = Str(<<"aws:sns">>)
            /\ IsNotification(data.json.fields.Records.items[1].fields.Sns, n, messageId)
       ELSE IsNotification(data.json, n, messageId)

\* what subscription i has handed its subscriber so far, in order
EnvelopesOf(i) == SelectSeq(executed, LAMBDA e : e.subscription = i)

\* the messages the server has published to the topic named n, in order
PublishedTo(n) ==
  SelectSeq(requests, LAMBDA r : r.status = 200 /\ r.topicName = Str(n))

\* every subscription of the topic of the r-th request has executed its
\* subscriber with the envelope of the message, under the request's identifier
Reached(r) ==
  /\ Accepted(r)
  /\ \A i \in SubscriptionsOf(requests[r].topicName.value) :
       \E e \in 1..Len(executed) :
         /\ executed[e].subscription = i
         /\ IsEnvelope(subscriptions[i].kind, executed[e].data,
                       requests[r].topicName.value, requests[r].messageId)

\* the envelopes of a topic's subscription are those of the messages published
\* to the topic, one each, in order, under the identifier of the publish
EnvelopesCarryPublishId ==
  \A n \in PublishNames : \A i \in SubscriptionsOf(n) :
    /\ Len(EnvelopesOf(i)) <= Len(PublishedTo(n))
    /\ \A j \in 1..Len(EnvelopesOf(i)) :
         IsEnvelope(subscriptions[i].kind, EnvelopesOf(i)[j].data, n,
                    PublishedTo(n)[j].messageId)

\* C20: once startServer has subscribed every subscription, a message the
\* server publishes to topic T is eventually handed to the subscriber of every
\* subscription whose origin is T, a function getting the SNS Records envelope
\* and a queue the bare notification, and every envelope made for the publish
\* carries the one identifier generated for it.
C20_PublishReachesSubscribers ==
  /\ []EnvelopesCarryPublishId
  /\ \A r \in 1..MaxPublishes : Accepted(r) ~> Reached(r)

\* a message published to a topic with a function and a queue subscribed has
\* reached both
C20_Witness ==
  \E r \in 1..MaxPublishes :
    /\ Reached(r)
    /\ \E i, j \in SubscriptionsOf(requests[r].topicName.value) :
         /\ subscriptions[i].kind = "TopicToFunc"
         /\ subscriptions[j].kind = "TopicToQueue"
    /\ timers = <<>>

\* ------------------------------------------------------------ C21
\* the chains Topic -> Queue -> Function of the topic named n: a subscription
\* of the topic to a queue and a subscription of that queue to a function
ChainsOf(n) ==
  {c \in SubscriptionsOf(n) \X (1..Len(subscriptions)) :
     /\ subscriptions[c[1]].kind = "TopicToQueue"
     /\ subscriptions[c[2]].kind = "QueueToFunc"
     /\ subscriptions[c[2]].origin = subscriptions[c[1]].subscriber}

\* data is a receive event of exactly one record whose body is the given text
IsReceiveEvent(data, body) ==
  /\ "json" \in DOMAIN data
  /\ DOMAIN data.json.fields = {"Records"}
  /\ Len(data.json.fields.Records.items) = 1
  /\ data.json.fields.Records.items[1].fields.eventSource = Str(<<"aws:sqs">>)
  /\ data.json.fields.Records.items[1].fields.body = body

\* what the topic's subscription i handed its queue for the r-th request
HandedToQueue(i, r) ==
  {executed[e].data : e \in {x \in 1..Len(executed) :
     /\ executed[x].subscription = i
     /\ IsEnvelope("TopicToQueue", executed[x].data, requests[r].topicName.value,
                   requests[r].messageId)}}

\* the function of every chain of the r-th request's topic has been invoked
\* with the receive event of what the queue was handed
ChainsReached(r) ==
  /\ Accepted(r)
  /\ \A c \in ChainsOf(requests[r].topicName.value) :
       \E body \in HandedToQueue(c[1], r) :
         \E e \in 1..Len(executed) :
           /\ executed[e].subscription = c[2]
           /\ IsReceiveEvent(executed[e].data, body)

\* every invocation through a queue's subscription carries, as the body of its
\* one record, a text some subscription handed to that queue
ReceiveEventsCarryQueueMessages ==
  \A e \in 1..Len(executed) :
    subscriptions[executed[e].subscription].kind = "QueueToFunc" =>
      \E x \in 1..Len(executed) :
        /\ subscriptions[executed[x].subscription].kind = "TopicToQueue"
        /\ subscriptions[executed[x].subscription].subscriber =
             subscriptions[executed[e].subscription].origin
        /\ IsReceiveEvent(executed[e].data, executed[x].data)

\* C21: for a chain Topic -> Queue -> Function, a message published to the
\* topic eventually invokes the function with a receive event of exactly one
\* record whose body is, unmodified, the notification envelope the topic's
\* subscription handed to the queue.
C21_ChainDeliversNotification ==
  /\ []ReceiveEventsCarryQueueMessages
  /\ \A r \in 1..MaxPublishes : Accepted(r) ~> ChainsReached(r)

\* a message published to a topic with a chain has gone through it
C21_Witness ==
  \E r \in 1..MaxPublishes :
    /\ ChainsReached(r)
    /\ ChainsOf(requests[r].topicName.value) # {}
    /\ timers = <<>>

\* ------------------------------------------------------------ C27
\* C27: a second run of the pass on the same instance adds nothing to the
\* side-effect outputs: the subscriptions of the model, every function's
\* events and provider.iamRoleStatements are after it as the first run left
\* them.
C27_SecondPassAddsNothing ==
  (PassDone /\ passes = 2) =>
    /\ subscriptions = pre.subscriptions
    /\ \A f \in DOMAIN functions : functions[f].events = pre.functions[f].events
    /\ iamRoleStatements = pre.iamRoleStatements

\* ------------------------------------------------------------ C28
\* C28: the pass leaves the declared custom.pubSub block alone: after it
\* custom.pubSub.queues and custom.pubSub.topics hold what was declared, also
\* for a queue whose VisibilityTimeout was computed.
C28_CustomBlockUntouched ==
  PassDone =>
    /\ custom.queues = declared.custom.queues
    /\ custom.topics = declared.custom.topics

\* ------------------------------------------------------------ C29
\* the message identifier an envelope of a topic's subscription carries
CarriedId(kind, data) ==
  IF kind = "TopicToFunc"
    THEN data.json.fields.Records.items[1].fields.Sns.fields.MessageId
    ELSE data.json.fields.MessageId

\* the requests answered 200 with the given MessageId
AnsweredWith(messageId) ==
  {r \in 1..Len(requests) :
     requests[r].status = 200 /\ requests[r].response.MessageId = messageId}

\* the envelopes handed to the subscribers of topics
DirectDeliveries ==
  {e \in 1..Len(executed) :
     subscriptions[executed[e].subscription].kind \in {"TopicToFunc", "TopicToQueue"}}

\* C29: the MessageId of a 200 response is the identifier in the envelopes
\* delivered to the direct subscribers of the request's topic, and no delivery
\* of one request carries the MessageId answered to another.
C29_ResponseIdIsDeliveredId ==
  /\ \A e \in DirectDeliveries :
       LET sub == subscriptions[executed[e].subscription]
           answered == AnsweredWith(CarriedId(sub.kind, executed[e].data))
       IN /\ Cardinality(answered) = 1
          /\ \A r \in answered : requests[r].topicName = topics[sub.origin].name
  /\ \A r, q \in 1..Len(requests) :
       (r # q /\ requests[r].status = 200 /\ requests[q].status = 200) =>
         requests[r].response.MessageId # requests[q].response.MessageId
  /\ \A n \in PublishNames : \A i \in SubscriptionsOf(n) :
       /\ Len(EnvelopesOf(i)) <= Len(PublishedTo(n))
       /\ \A j \in 1..Len(EnvelopesOf(i)) :
            CarriedId(subscriptions[i].kind, EnvelopesOf(i)[j].data)
              = PublishedTo(n)[j].response.MessageId

\* two requests for one topic were answered 200 and both delivered to a
\* function and to a queue
C29_Witness ==
  /\ Len(requests) >= 2
  /\ requests[1].status = 200
  /\ requests[2].status = 200
  /\ requests[1].topicName = requests[2].topicName
  /\ \E i, j \in SubscriptionsOf(requests[1].topicName.value) :
       /\ subscriptions[i].kind = "TopicToFunc"
       /\ subscriptions[j].kind = "TopicToQueue"
       /\ Len(EnvelopesOf(i)) = 2
       /\ Len(EnvelopesOf(j)) = 2

\* ------------------------------------------------------------ C30
\* the locally managed topics of the model
LocalTopics == {t \in 1..Len(topics) : topics[t].arn = Null}

\* the r-th request was a Publish for the address of topic t and was answered
\* by publishing to t
ResolvedBackTo(r, t) ==
  /\ requests[r].status = 200
  /\ requests[r].topicName = topics[t].name
  /\ requests[r].messageId # Null

\* C30: the address the pubSubTopic variable source gives for a locally managed
\* topic T in local simulation, sent as the TopicArn of a Publish request to
\* the endpoint started with the same stack prefix, resolves back to T itself,
\* never to another topic and never to not-found.
C30_LocalAddressRoundTrip ==
  \A r \in 1..Len(requests) :
    requests[r].body.Action = Str(<<"Publish">>) =>
      /\ \A t \in LocalTopics :
           requests[r].body.TopicArn = formatTopicArn(topics[t]) => ResolvedBackTo(r, t)
      /\ \A a \in resolved : \A t \in LocalTopics :
           (requests[r].body.TopicArn = a.value /\ topics[t].name = Str(a.address))
             => ResolvedBackTo(r, t)

\* the address resolved for the topic whose name starts like the stack prefix
\* was sent to the endpoint while T1 was a topic of the model too
C30_Witness ==
  /\ \E a \in resolved :
       /\ a.address = stackPrefix \o T1
       /\ \E r \in 1..Len(requests) :
            /\ requests[r].body.TopicArn = a.value
            /\ requests[r].topicName = Str(stackPrefix \o T1)
            /\ requests[r].status = 200
  /\ \E t \in LocalTopics : topics[t].name = Str(T1)

\* ------------------------------------------------------------ C22
\* the handlers registered for subscription i
HandlersOf(i) == {l \in 1..Len(listeners) : listeners[l].subscription = i}

\* C22: activation is once per subscription: however often subscribe() is
\* called for a Subscription, at most one handler of it is registered on its
\* origin's channel, and the delivery of one published message invokes its
\* subscriber at most once.
C22_ActivationOncePerSubscription ==
  /\ [](\A i \in 1..Len(subscriptions) : Cardinality(HandlersOf(i)) <= 1)
  /\ [][\A i \in 1..Len(subscriptions) :
          Len(SelectSeq(executed', LAMBDA e : e.subscription = i))
            <= Len(EnvelopesOf(i)) + 1]_vars

\* ------------------------------------------------------------ C23
\* the TopicArn of the request body is the address of a topic of the model
ResolvesToTopic(body) ==
  /\ body.TopicArn.type = "string"
  /\ \E t \in 1..Len(topics) :
       topics[t].name = Str(RemoveFirst(LastSegment(body.TopicArn.value), stackPrefix))

\* C23: a request is answered 200 with a PublishResponse, and one publish is
\* dispatched for it, if and only if its Action is Publish and its TopicArn
\* resolves to the name of a topic of the model; every other request is
\* answered 404 with the error body and dispatches nothing, and the server
\* goes on serving.
C23_EndpointAnswers ==
  \A r \in 1..Len(requests) :
    /\ IF requests[r].body.Action = Str(<<"Publish">>) /\ ResolvesToTopic(requests[r].body)
         THEN /\ requests[r].response.status = 200
              /\ requests[r].response.body = "PublishResponse"
              /\ requests[r].messageId # Null
         ELSE /\ requests[r].response.status = 404
              /\ requests[r].response.body = "ErrorResponse"
              /\ requests[r].messageId = Null
    /\ pc = "serving"

\* ------------------------------------------------------------ C26
\* C26: a message reaches a subscriber only through a subscription of its own
\* origin: what a topic's subscription delivers is a message published to that
\* topic, and what a queue's subscription delivers is a message a topic's
\* subscription forwarded into that queue, also when a topic and a queue have
\* the same name.
C26_DeliveredThroughOwnOrigin ==
  \A e \in 1..Len(executed) :
    LET sub == subscriptions[executed[e].subscription]
    IN IF sub.kind = "QueueToFunc"
         THEN \E x \in 1..Len(executed) :
                /\ subscriptions[executed[x].subscription].kind = "TopicToQueue"
                /\ subscriptions[executed[x].subscription].subscriber = sub.origin
                /\ IsReceiveEvent(executed[e].data, executed[x].data)
         ELSE \E r \in 1..Len(requests) :
                /\ requests[r].status = 200
                /\ requests[r].topicName = topics[sub.origin].name
                /\ IsEnvelope(sub.kind, executed[e].data, topics[sub.origin].name.value,
                              requests[r].messageId)
\* ------------------------------------------------------------ C25
\* the address the offline block declares, the defaults where it is silent
ConfiguredAddress ==
  <<"http", ":", "//">>
    \o (IF Truthy(Get(offline, "host")) THEN Get(offline, "host").value
        ELSE <<"localhost">>)
    \o <<":">>
    \o (IF Truthy(Get(offline, "port")) THEN Get(offline, "port").value
        ELSE <<"3100">>)

\* the -e values the command line gave
GivenOverrides ==
  LET e == Lookup(cliOptions, "e")
  IN IF e.type = "array" THEN {e.items[i] : i \in 1..Len(e.items)}
     ELSE IF Truthy(e) THEN {e} ELSE {}

\* the entries of an -e list that set the variable, in order
EntriesFor(env, name) == SelectSeq(env, LAMBDA entry : Head(entry.value) = name)

\* the address an entry sets
AddressOf(entry) == SubSeq(entry.value, 3, Len(entry.value))

ProcessesIn(status) == {p \in 1..Len(processes) : processes[p].status = status}

\* the server can answer a Publish request for every topic name now
AnswersNow ==
  \A n \in PublishNames : ENABLED ServerPublish(formatTopicArn([name |-> Str(n)]).value)

\* the step answers a request: with a status, and without a delivery or a
\* handler run or ended in it
AnsweredWithoutFanOut ==
  Len(requests') > Len(requests) =>
    /\ requests'[Len(requests')].status \in {200, 404}
    /\ executed' = executed
    /\ processes' = processes

\* C24: while the server is serving, a publish request is answered at once,
\* whatever deliveries are still deferred and whatever handler processes are
\* still running or have failed; and the step that answers runs no delivery
\* and no handler
C24_ResponseNeverWaits ==
  /\ [](pc = "serving" /\ Len(requests) < MaxPublishes => AnswersNow)
  /\ [][AnsweredWithoutFanOut]_vars

\* two requests were accepted, the second while a delivery was deferred, one
\* handler had failed and another was still running
C24_Witness ==
  /\ Len(requests) = 2
  /\ requests[1].status = 200
  /\ requests[2].status = 200
  /\ Len(timers) = 1
  /\ ProcessesIn("failed") # {}
  /\ ProcessesIn("running") # {}
====
